---- MODULE Spec2Model ----
(***************************************************************************)
(* A model of the invertible-model-gui image processor: the per-image      *)
(* pipeline state (data_utils.ImageDataManager), the crop selector         *)
(* (component_image_display.CropImageDisplay), the coordinate mapping      *)
(* between the original image and the scaled, centred display, and the     *)
(* mode actions of component_opt_widgets that mark images as processed,     *)
(* the display router (ModeDisplayManager) with the mode managers that     *)
(* drive it, and the import and removal of images (image_list_widget).     *)
(*                                                                         *)
(* Python floats are modelled by exact rationals: an aspect ratio W/H is   *)
(* the pair <<W, H>>, and int(a * b / c) is the truncating division        *)
(* Trunc(a * b, c).  QRect(x, y, w, h) and Python tuples are TLA+ tuples,  *)
(* None is the empty tuple, and a non-null scalar v is the 1-tuple <<v>>.  *)
(***************************************************************************)
EXTENDS Integers, Sequences, FiniteSets, TLC

VARIABLES
    image_list,       \* ImageListWidget.image_list: the working set, in order
    mgr,              \* the fields of each ImageDataManager, by image
    model_path,       \* MarkOptMode.model_path ("" until a model is selected)
    image_manager,    \* CropImageDisplay.image_manager: the bound image or NoImage
    scaled_pixmap,    \* CropImageDisplay.scaled_pixmap: None or its <<w, h>>
    size,             \* the selector widget's size() as <<width, height>>
    aspect_ratio,     \* CropImageDisplay.aspect_ratio: None or <<W, H>> for W/H
    rect_size,        \* CropImageDisplay.rect_size
    rectangle,        \* CropImageDisplay.rectangle as <<x, y, w, h>>
    is_selecting,     \* CropImageDisplay.is_selecting
    last_rect_size,   \* CropImageDisplay.last_rect_size, None where no entry
    last_rect_pos,    \* CropImageDisplay.last_rect_pos, None where no entry
    display_mode,     \* ModeDisplayManager.current_mode, or NoMode
    display_image,    \* ModeDisplayManager.image_manager, or NoImage
    components,       \* image_manager of the default/resize/mark/correct displays
    shown,            \* which display components are shown (not hidden)
    opt_mode,         \* ModeOptManager.current_mode, or NoMode
    ratio_combo,      \* CropOptMode.ratio_combo.currentText()
    call_stack,       \* the handlers in progress, innermost last, each at its pc
    last              \* history: the last operation, its argument, what it raised

trackerVars == <<image_list, mgr, model_path>>
viewVars == <<image_manager, scaled_pixmap, size>>
selVars == <<aspect_ratio, rect_size, rectangle, is_selecting,
             last_rect_size, last_rect_pos>>
routerVars == <<display_mode, display_image, components, shown, opt_mode,
                ratio_combo, call_stack>>
vars == <<trackerVars, viewVars, selVars, routerVars, last>>

None == <<>>
NoImage == "None"

-----------------------------------------------------------------------------
(* Arithmetic helpers.                                                     *)

Min(a, b) == IF a <= b THEN a ELSE b
Max(a, b) == IF a >= b THEN a ELSE b
Abs(a) == IF a >= 0 THEN a ELSE -a

\* Python's int(n / d): the quotient truncated towards zero (d # 0).
Trunc(n, d) ==
    IF (n >= 0) = (d > 0) THEN Abs(n) \div Abs(d) ELSE -(Abs(n) \div Abs(d))

\* Bitwise and / or of two 5-bit masks (Python's & and | on small ints).
Bit(a, k) == (a \div k) % 2
BitAnd(a, b) ==
    Bit(a, 1) * Bit(b, 1) + 2 * Bit(a, 2) * Bit(b, 2) + 4 * Bit(a, 4) * Bit(b, 4)
    + 8 * Bit(a, 8) * Bit(b, 8) + 16 * Bit(a, 16) * Bit(b, 16)
\* Mutation of BitOr: the mask added, as state += new_state would.
BitOr_adding(a, b) == a + b

BitOr(a, b) == a + b - BitAnd(a, b)
\* a & ~b on the five state bits
BitClear(a, b) == a - BitAnd(a, b)

-----------------------------------------------------------------------------
(* data_utils.ImageDataManager                                             *)

STATE_NONE == 0
STATE_CROP == 16
STATE_RESIZE == 8
STATE_INFER == 4
STATE_FIX == 2
STATE_ORDER == <<STATE_CROP, STATE_RESIZE, STATE_INFER, STATE_FIX>>

\* The images on disk and their pixel sizes (read by cv2.imread / QPixmap).
Images == {"A", "B"}
org_width(i) == IF i = "A" THEN 800 ELSE 100
org_height(i) == 600

\* ImageDataManager.reset: the state after construction.
reset ==
    [state |-> STATE_NONE, roi |-> None, resize |-> None,
     prompt |-> None, fix_prompt |-> None]

RECURSIVE SumSeq(_, _)
SumSeq(s, n) == IF n = 0 THEN 0 ELSE s[n] + SumSeq(s, n - 1)
IndexOf(s, v) == CHOOSE k \in 1..Len(s) : s[k] = v

\* Mutation of _update_state: the new bit or-ed in without masking the later ones.
_update_state_unmasked(state, new_state) == BitOr(state, new_state)

\* ImageDataManager._update_state: keep the bits up to new_state, or it in.
_update_state(state, new_state) ==
    LET kept == IF \E k \in 1..Len(STATE_ORDER) : STATE_ORDER[k] = new_state
                THEN BitAnd(state, SumSeq(STATE_ORDER, IndexOf(STATE_ORDER, new_state)))
                ELSE state
    IN BitOr(kept, new_state)

\* Mutation of set_crop: the later stages' payloads left in place.
set_crop_keeping_payloads(m, roi) ==
    [m EXCEPT !.roi = roi, !.state = _update_state(m.state, STATE_CROP)]

set_crop(m, roi) ==
    [m EXCEPT !.roi = roi, !.resize = None, !.prompt = None, !.fix_prompt = None,
              !.state = _update_state(m.state, STATE_CROP)]

set_resize(m, resize) ==
    [m EXCEPT !.resize = resize, !.prompt = None, !.fix_prompt = None,
              !.state = _update_state(m.state, STATE_RESIZE)]

set_infer(m, prompt) ==
    [m EXCEPT !.prompt = prompt, !.fix_prompt = None,
              !.state = _update_state(m.state, STATE_INFER)]

set_fix(m, fix_prompt) ==
    [m EXCEPT !.fix_prompt = fix_prompt,
              !.state = _update_state(m.state, STATE_FIX)]

is_croped(m) == BitAnd(m.state, STATE_CROP)
is_resized(m) == BitAnd(m.state, STATE_RESIZE)
is_infered(m) == BitAnd(m.state, STATE_INFER)
is_fixed(m) == BitAnd(m.state, STATE_FIX)

\* Python's format(n, 'b') for n >= 0: the binary digits of n, as characters.
RECURSIVE format_b(_)
format_b(n) ==
    IF n < 2 THEN <<IF n = 0 THEN "0" ELSE "1">>
    ELSE Append(format_b(n \div 2), IF n % 2 = 0 THEN "0" ELSE "1")

\* format(n, '05b'): zeros put before the digits up to a width of five.
format_05b(n) ==
    LET digits == format_b(n) IN
    [k \in 1..(Max(5, Len(digits)) - Len(digits)) |-> "0"] \o digits

\* ImageDataManager.get_state.
get_state(m) == format_05b(m.state)

-----------------------------------------------------------------------------
(* component_image_display: geometry of the scaled, centred display        *)

QRect(x, y, w, h) == <<x, y, w, h>>
NullRect == QRect(0, 0, 0, 0)
isNull(r) == r[3] = 0 /\ r[4] = 0

\* QPixmap.scaled(size, Qt.KeepAspectRatio): QSize::scaled in 64-bit integer
\* arithmetic, each side at least 1.
scaled(orig, s) ==
    LET rw == (s[2] * orig[1]) \div orig[2]
        fit == IF rw <= s[1] THEN <<rw, s[2]>>
               ELSE <<s[1], (s[1] * orig[2]) \div orig[1]>>
    IN <<Max(fit[1], 1), Max(fit[2], 1)>>

original_pixmap(img) == IF img = NoImage THEN None ELSE <<org_width(img), org_height(img)>>

\* BaseImageDisplay._scale_image: the new scaled_pixmap.
_scale_image(img, sz, old) ==
    IF original_pixmap(img) # None THEN scaled(original_pixmap(img), sz) ELSE old

\* The offset of the centred scaled image inside the widget.
x_offset(sp, sz) == (sz[1] - sp[1]) \div 2
y_offset(sp, sz) == (sz[2] - sp[2]) \div 2

\* Mutation of _set_default_rectangle: the computed sides not clamped to the
\* displayed image.
_set_default_rectangle_without_clamp(sp, sz, ar, rs, rect) ==
    IF sp = None THEN rect
    ELSE
      LET img_width == sp[1]
          img_height == sp[2]
          landscape == ar[1] > ar[2]
          width == IF landscape THEN Min(rs, img_width)
                   ELSE Trunc(Min(rs, img_height) * ar[1], ar[2])
          height == IF landscape THEN Trunc(width * ar[2], ar[1])
                    ELSE Min(rs, img_height)
          x == x_offset(sp, sz) + (img_width - width) \div 2
          y == y_offset(sp, sz) + (img_height - height) \div 2
      IN QRect(x, y, width, height)

\* CropImageDisplay._set_default_rectangle: the new rectangle (ar # None).
_set_default_rectangle(sp, sz, ar, rs, rect) ==
    IF sp = None THEN rect
    ELSE
      LET img_width == sp[1]
          img_height == sp[2]
          landscape == ar[1] > ar[2]
          width0 == IF landscape THEN Min(rs, img_width)
                    ELSE Trunc(Min(rs, img_height) * ar[1], ar[2])
          height0 == IF landscape THEN Trunc(width0 * ar[2], ar[1])
                     ELSE Min(rs, img_height)
          width == Min(width0, img_width)
          height == Min(height0, img_height)
          x == x_offset(sp, sz) + (img_width - width) \div 2
          y == y_offset(sp, sz) + (img_height - height) \div 2
      IN QRect(x, y, width, height)

\* Mutation of _get_source_rect: the offset of the displayed image not
\* subtracted.
_get_source_rect_without_offset(img, sp, sz, rect) ==
    IF original_pixmap(img) = None \/ sp = None \/ isNull(rect) THEN NullRect
    ELSE
      LET ow == original_pixmap(img)[1]
          oh == original_pixmap(img)[2]
      IN QRect(Trunc(rect[1] * ow, sp[1]), Trunc(rect[2] * oh, sp[2]),
               Trunc(rect[3] * ow, sp[1]), Trunc(rect[4] * oh, sp[2]))

\* CropImageDisplay._get_source_rect: the rectangle in original-image pixels.
_get_source_rect(img, sp, sz, rect) ==
    IF original_pixmap(img) = None \/ sp = None \/ isNull(rect) THEN NullRect
    ELSE
      LET ow == original_pixmap(img)[1]
          oh == original_pixmap(img)[2]
      IN QRect(Trunc((rect[1] - x_offset(sp, sz)) * ow, sp[1]),
               Trunc((rect[2] - y_offset(sp, sz)) * oh, sp[2]),
               Trunc(rect[3] * ow, sp[1]),
               Trunc(rect[4] * oh, sp[2]))

\* Mutation of _update_rectangle_position: the corner of the rectangle put
\* on pos, not its centre.
_update_rectangle_position_from_corner(sp, sz, rect, pos) ==
    LET img_width == sp[1]
        img_height == sp[2]
        xo == x_offset(sp, sz)
        yo == y_offset(sp, sz)
        center_x == Max(xo, Min(pos[1], xo + img_width))
        center_y == Max(yo, Min(pos[2], yo + img_height))
        new_x == Max(xo, Min(center_x, xo + img_width - rect[3]))
        new_y == Max(yo, Min(center_y, yo + img_height - rect[4]))
    IN QRect(new_x, new_y, rect[3], rect[4])

\* CropImageDisplay._update_rectangle_position: the rectangle centred on pos,
\* pushed back inside the displayed image.
_update_rectangle_position(sp, sz, rect, pos) ==
    LET img_width == sp[1]
        img_height == sp[2]
        xo == x_offset(sp, sz)
        yo == y_offset(sp, sz)
        center_x == Max(xo, Min(pos[1], xo + img_width))
        center_y == Max(yo, Min(pos[2], yo + img_height))
        new_x0 == center_x - rect[3] \div 2
        new_y0 == center_y - rect[4] \div 2
        new_x == Max(xo, Min(new_x0, xo + img_width - rect[3]))
        new_y == Max(yo, Min(new_y0, yo + img_height - rect[4]))
    IN QRect(new_x, new_y, rect[3], rect[4])

min_width == 100

\* The scale factor of one wheel step as a fraction: 1.1 or 0.9.
scale_factor(angle_delta) == IF angle_delta > 0 THEN <<11, 10>> ELSE <<9, 10>>

\* Mutation of wheel_rectangle: the height scaled by the factor like the
\* width, not derived from the new width.
wheel_rectangle_scaling_height(sp, sz, ar, rect, angle_delta) ==
    LET f == scale_factor(angle_delta)
        max_width == Min(sp[1], Trunc(sp[2] * ar[1], ar[2]))
        new_width == Max(min_width, Min(Trunc(rect[3] * f[1], f[2]), max_width))
        new_height == Trunc(rect[4] * f[1], f[2])
    IN <<QRect(rect[1], rect[2], new_width, new_height), Max(new_width, new_height)>>

\* CropImageDisplay.wheelEvent, lines 372-402: <<new rectangle, new rect_size>>.
wheel_rectangle(sp, sz, ar, rect, angle_delta) ==
    LET f == scale_factor(angle_delta)
        img_width == sp[1]
        img_height == sp[2]
        xo == x_offset(sp, sz)
        yo == y_offset(sp, sz)
        max_width == Min(img_width, Trunc(img_height * ar[1], ar[2]))
        new_width == Max(min_width, Min(Trunc(rect[3] * f[1], f[2]), max_width))
        new_height == Trunc(new_width * ar[2], ar[1])
        center_x == rect[1] + rect[3] \div 2
        center_y == rect[2] + rect[4] \div 2
        new_x == Max(xo, Min(center_x - new_width \div 2, xo + img_width - new_width))
        new_y == Max(yo, Min(center_y - new_height \div 2, yo + img_height - new_height))
    IN <<QRect(new_x, new_y, new_width, new_height), Max(new_width, new_height)>>

\* MarkImageDisplay._get_processed_image_rect, lines 499-508: the crop
\* rectangle roi mapped from original-image pixels to the display.
display_rect(img, sp, sz, roi) ==
    LET ow == original_pixmap(img)[1]
        oh == original_pixmap(img)[2]
    IN QRect(x_offset(sp, sz) + Trunc(roi[1] * sp[1], ow),
             y_offset(sp, sz) + Trunc(roi[2] * sp[2], oh),
             Trunc(roi[3] * sp[1], ow),
             Trunc(roi[4] * sp[2], oh))

-----------------------------------------------------------------------------
(* CropImageDisplay.set_aspect_ratio: parsing "W:H".  A Python str is the  *)
(* sequence of its characters.                                             *)

Digits == <<"0", "1", "2", "3", "4", "5", "6", "7", "8", "9">>
IsDigit(c) == \E k \in 1..Len(Digits) : Digits[k] = c
DigitVal(c) == IndexOf(Digits, c) - 1

\* str.strip(): without the leading and trailing blanks.
RECURSIVE lstrip(_)
lstrip(s) == IF s # <<>> /\ Head(s) = " " THEN lstrip(Tail(s)) ELSE s
RECURSIVE rstrip(_)
rstrip(s) ==
    IF s # <<>> /\ s[Len(s)] = " " THEN rstrip(SubSeq(s, 1, Len(s) - 1)) ELSE s
strip(s) == rstrip(lstrip(s))

\* str.split(':'): the parts between the colons (always at least one part).
RECURSIVE split(_, _)
split(s, sep) ==
    IF \A k \in 1..Len(s) : s[k] # sep THEN <<s>>
    ELSE LET k == CHOOSE k \in 1..Len(s) :
                      s[k] = sep /\ \A j \in 1..(k - 1) : s[j] # sep
         IN <<SubSeq(s, 1, k - 1)>> \o split(SubSeq(s, k + 1, Len(s)), sep)

\* int(str): None for a ValueError, else <<value>>.  Blanks around the
\* number and one sign are accepted, then one or more decimal digits.
RECURSIVE DigitsVal(_)
DigitsVal(s) ==
    IF s = <<>> THEN 0 ELSE 10 * DigitsVal(SubSeq(s, 1, Len(s) - 1)) + DigitVal(s[Len(s)])
int(str) ==
    LET t == strip(str)
        signed == t # <<>> /\ Head(t) \in {"-", "+"}
        ds == IF signed THEN Tail(t) ELSE t
    IN IF ds = <<>> \/ \E k \in 1..Len(ds) : ~IsDigit(ds[k]) THEN None
       ELSE IF signed /\ Head(t) = "-" THEN <<-DigitsVal(ds)>> ELSE <<DigitsVal(ds)>>

RECURSIVE Gcd(_, _)
Gcd(a, b) == IF b = 0 THEN a ELSE Gcd(b, a % b)

\* The float W / H as a fraction in lowest terms with a positive denominator:
\* two strings denote the same float exactly when the fractions are equal.
Ratio(w, h) ==
    LET g == Gcd(Abs(w), Abs(h))
        sign == IF h < 0 THEN -1 ELSE 1
    IN <<sign * (w \div g), sign * (h \div g)>>

\* Mutation of parse_ratio: the parts after the second ignored.
parse_ratio_of_two_parts(ratio_str) ==
    IF ratio_str = <<>> \/ strip(ratio_str) = <<>> THEN <<"empty">>
    ELSE LET parts == split(ratio_str, ":")
         IN IF Len(parts) < 2 \/ int(parts[1]) = None \/ int(parts[2]) = None
               THEN <<"ValueError">>
            ELSE IF int(parts[2])[1] = 0 THEN <<"ZeroDivisionError">>
            ELSE <<"ok">> \o Ratio(int(parts[1])[1], int(parts[2])[1])

\* What set_aspect_ratio makes of ratio_str: <<"empty">>, <<"ValueError">>
\* (caught, line 165), <<"ZeroDivisionError">> (not caught) or <<"ok", W, H>>.
parse_ratio(ratio_str) ==
    IF ratio_str = <<>> \/ strip(ratio_str) = <<>> THEN <<"empty">>
    ELSE LET parts == split(ratio_str, ":")
         IN IF \E k \in 1..Min(Len(parts), 2) : int(parts[k]) = None
               THEN <<"ValueError">>
            ELSE IF Len(parts) # 2 THEN <<"ValueError">>
            ELSE IF int(parts[2])[1] = 0 THEN <<"ZeroDivisionError">>
            ELSE <<"ok">> \o Ratio(int(parts[1])[1], int(parts[2])[1])

-----------------------------------------------------------------------------
(* The operations.  Every action records in `last` the operation, the      *)
(* image it was applied to (the bound image for the selector's handlers),  *)
(* its argument, that image's record before it (a fresh record where no    *)
(* image is involved), what it returned and what it raised.                *)

InList(i) == \E k \in 1..Len(image_list) : image_list[k] = i

LogOut(op, img, arg, out, exc) ==
    last' = [op |-> op, img |-> img, arg |-> arg,
             pre |-> IF img = NoImage THEN reset ELSE mgr[img],
             out |-> out, exc |-> exc]

Log(op, img, arg, exc) == LogOut(op, img, arg, None, exc)

\* ImageDataManager.set_crop / set_resize / set_infer / set_fix / reset,
\* called on the record of image i.
SetCrop(i, roi) ==
    /\ InList(i)
    /\ mgr' = [mgr EXCEPT ![i] = set_crop(@, roi)]
    /\ Log("set_crop", i, roi, "")
    /\ UNCHANGED <<image_list, model_path, viewVars, selVars>>
    /\ UNCHANGED routerVars

SetResize(i, resize) ==
    /\ InList(i)
    /\ mgr' = [mgr EXCEPT ![i] = set_resize(@, resize)]
    /\ Log("set_resize", i, resize, "")
    /\ UNCHANGED <<image_list, model_path, viewVars, selVars>>
    /\ UNCHANGED routerVars

SetInfer(i, prompt) ==
    /\ InList(i)
    /\ mgr' = [mgr EXCEPT ![i] = set_infer(@, prompt)]
    /\ Log("set_infer", i, prompt, "")
    /\ UNCHANGED <<image_list, model_path, viewVars, selVars>>
    /\ UNCHANGED routerVars

SetFix(i, fix_prompt) ==
    /\ InList(i)
    /\ mgr' = [mgr EXCEPT ![i] = set_fix(@, fix_prompt)]
    /\ Log("set_fix", i, fix_prompt, "")
    /\ UNCHANGED <<image_list, model_path, viewVars, selVars>>
    /\ UNCHANGED routerVars

Reset(i) ==
    /\ InList(i)
    /\ mgr' = [mgr EXCEPT ![i] = reset]
    /\ Log("reset", i, None, "")
    /\ UNCHANGED <<image_list, model_path, viewVars, selVars>>
    /\ UNCHANGED routerVars

\* ResizeOptMode.perform_action with image i selected in the list.
ResizePerformAction(i) ==
    /\ InList(i)
    /\ mgr' = [mgr EXCEPT ![i].state = BitOr(@, STATE_RESIZE)]
    /\ Log("resize_action", i, None, "")
    /\ UNCHANGED <<image_list, model_path, viewVars, selVars>>
    /\ UNCHANGED routerVars

\* MarkOptMode.select_model with a directory chosen in the dialog.
SelectModel ==
    /\ model_path' = "model"
    /\ Log("select_model", NoImage, None, "")
    /\ UNCHANGED <<image_list, mgr, viewVars, selVars>>
    /\ UNCHANGED routerVars

\* MarkOptMode.perform_action with image i selected: refused without a model.
MarkPerformAction(i) ==
    /\ InList(i)
    /\ mgr' = IF model_path = "" THEN mgr
              ELSE [mgr EXCEPT ![i].state = BitOr(@, STATE_INFER)]
    /\ Log("mark_action", i, None, "")
    /\ UNCHANGED <<image_list, model_path, viewVars, selVars>>
    /\ UNCHANGED routerVars

\* CorrectOptMode.perform_apply with image i selected.
CorrectPerformApply(i) ==
    /\ InList(i)
    /\ mgr' = [mgr EXCEPT ![i].state = BitOr(@, STATE_FIX)]
    /\ Log("correct_action", i, None, "")
    /\ UNCHANGED <<image_list, model_path, viewVars, selVars>>
    /\ UNCHANGED routerVars

-----------------------------------------------------------------------------
(* CropImageDisplay: the selector's handlers.                              *)

\* Mutation of SetImage: the phase left as it was when nothing is restored.
SetImage_keeping_phase(im) ==
    /\ im = NoImage \/ InList(im)
    /\ image_manager' = im
    /\ IF im # NoImage
          THEN LET sp == _scale_image(im, size, scaled_pixmap) IN
               /\ scaled_pixmap' = sp
               /\ IF last_rect_size[im] # None /\ aspect_ratio # None
                     THEN /\ rect_size' = last_rect_size[im][1]
                          /\ rectangle' = last_rect_pos[im]
                          /\ is_selecting' = FALSE
                     ELSE /\ rectangle' =
                               IF aspect_ratio # None
                               THEN _set_default_rectangle(sp, size, aspect_ratio,
                                                           rect_size, rectangle)
                               ELSE NullRect
                          /\ UNCHANGED <<rect_size, is_selecting>>
          ELSE /\ scaled_pixmap' = None
               /\ rectangle' = NullRect
               /\ UNCHANGED <<rect_size, is_selecting>>
    /\ Log("set_image", im, None, "")
    /\ UNCHANGED <<trackerVars, size, aspect_ratio, last_rect_size, last_rect_pos>>
    /\ UNCHANGED routerVars

\* CropImageDisplay.set_image(image_manager), im an image or NoImage.
SetImage(im) ==
    /\ im = NoImage \/ InList(im)
    /\ image_manager' = im
    /\ IF im # NoImage
          THEN LET sp == _scale_image(im, size, scaled_pixmap) IN
               /\ scaled_pixmap' = sp
               /\ IF last_rect_size[im] # None /\ aspect_ratio # None
                     THEN /\ rect_size' = last_rect_size[im][1]
                          /\ rectangle' = last_rect_pos[im]
                          /\ is_selecting' = FALSE
                     ELSE /\ rectangle' =
                               IF aspect_ratio # None
                               THEN _set_default_rectangle(sp, size, aspect_ratio,
                                                           rect_size, rectangle)
                               ELSE NullRect
                          /\ is_selecting' = TRUE
                          /\ UNCHANGED rect_size
          ELSE /\ scaled_pixmap' = None
               /\ rectangle' = NullRect
               /\ UNCHANGED <<rect_size, is_selecting>>
    /\ Log("set_image", im, None, "")
    /\ UNCHANGED <<trackerVars, size, aspect_ratio, last_rect_size, last_rect_pos>>
    /\ UNCHANGED routerVars

\* Mutation of clear_crop: the roi dropped, the CROP bit left set.
clear_crop_roi_only(m) == [m EXCEPT !.roi = None]

\* Lines 153-156 and 293-295: the crop information of the bound image cleared.
clear_crop(m) == [m EXCEPT !.roi = None, !.state = BitClear(@, STATE_CROP)]

\* Mutation of SetAspectRatio: a valid ratio stored, the rectangle kept.
SetAspectRatio_keeping_rectangle(ratio_str) ==
    \E p \in {parse_ratio(ratio_str)} :
    /\ IF p[1] = "empty"
          THEN /\ aspect_ratio' = None
               /\ rectangle' = NullRect
               /\ mgr' = IF image_manager # NoImage
                         THEN [mgr EXCEPT ![image_manager] = clear_crop(@)]
                         ELSE mgr
          ELSE IF p[1] = "ok"
          THEN /\ aspect_ratio' = <<p[2], p[3]>>
               /\ UNCHANGED <<rectangle, mgr>>
          ELSE UNCHANGED <<aspect_ratio, rectangle, mgr>>
    /\ Log("set_aspect_ratio", image_manager, ratio_str,
           IF p[1] = "ZeroDivisionError" THEN p[1] ELSE "")
    /\ UNCHANGED <<image_list, model_path, viewVars, rect_size, is_selecting,
                   last_rect_size, last_rect_pos>>
    /\ UNCHANGED routerVars

\* CropImageDisplay.set_aspect_ratio(ratio_str).
SetAspectRatio(ratio_str) ==
    \E p \in {parse_ratio(ratio_str)} :
    /\ IF p[1] = "empty"
          THEN /\ aspect_ratio' = None
               /\ rectangle' = NullRect
               /\ mgr' = IF image_manager # NoImage
                         THEN [mgr EXCEPT ![image_manager] = clear_crop(@)]
                         ELSE mgr
          ELSE IF p[1] = "ok"
          THEN /\ aspect_ratio' = <<p[2], p[3]>>
               /\ rectangle' =
                    IF image_manager # NoImage
                    THEN _set_default_rectangle(scaled_pixmap, size, <<p[2], p[3]>>,
                                                rect_size, rectangle)
                    ELSE rectangle
               /\ UNCHANGED mgr
          ELSE UNCHANGED <<aspect_ratio, rectangle, mgr>>
    /\ Log("set_aspect_ratio", image_manager, ratio_str,
           IF p[1] = "ZeroDivisionError" THEN p[1] ELSE "")
    /\ UNCHANGED <<image_list, model_path, viewVars, rect_size, is_selecting,
                   last_rect_size, last_rect_pos>>
    /\ UNCHANGED routerVars

\* Mutation of SetRectSize: the selector put back in Selecting phase.
SetRectSize_reselecting(n) ==
    /\ rect_size' = n
    /\ rectangle' =
         IF image_manager # NoImage /\ aspect_ratio # None
         THEN _set_default_rectangle(scaled_pixmap, size, aspect_ratio, n, rectangle)
         ELSE rectangle
    /\ is_selecting' = TRUE
    /\ Log("set_rect_size", image_manager, <<n>>,
           IF image_manager # NoImage /\ scaled_pixmap # None /\ aspect_ratio = None
           THEN "TypeError" ELSE "")
    /\ UNCHANGED <<trackerVars, viewVars, aspect_ratio, last_rect_size, last_rect_pos>>
    /\ UNCHANGED routerVars

\* CropImageDisplay.set_rect_size(size): with an image bound and no aspect
\* ratio, _set_default_rectangle compares None > 1 and raises TypeError.
SetRectSize(n) ==
    /\ rect_size' = n
    /\ rectangle' =
         IF image_manager # NoImage /\ aspect_ratio # None
         THEN _set_default_rectangle(scaled_pixmap, size, aspect_ratio, n, rectangle)
         ELSE rectangle
    /\ Log("set_rect_size", image_manager, <<n>>,
           IF image_manager # NoImage /\ scaled_pixmap # None /\ aspect_ratio = None
           THEN "TypeError" ELSE "")
    /\ UNCHANGED <<trackerVars, viewVars, aspect_ratio, is_selecting,
                   last_rect_size, last_rect_pos>>
    /\ UNCHANGED routerVars

\* Mutation of Confirm: the size remembered, the position not.
Confirm_without_position ==
    /\ is_selecting' = FALSE
    /\ IF image_manager # NoImage
          THEN /\ mgr' = [mgr EXCEPT ![image_manager] =
                              set_crop(@, _get_source_rect(image_manager, scaled_pixmap,
                                                           size, rectangle))]
               /\ last_rect_size' = [last_rect_size EXCEPT ![image_manager] = <<rect_size>>]
               /\ last_rect_pos' = [last_rect_pos EXCEPT ![image_manager] = NullRect]
          ELSE UNCHANGED <<mgr, last_rect_size, last_rect_pos>>
    /\ UNCHANGED <<rectangle, rect_size>>

\* Lines 275-285 and 348-358: the selection confirmed.
Confirm ==
    /\ is_selecting' = FALSE
    /\ IF image_manager # NoImage
          THEN /\ mgr' = [mgr EXCEPT ![image_manager] =
                              set_crop(@, _get_source_rect(image_manager, scaled_pixmap,
                                                           size, rectangle))]
               /\ last_rect_size' = [last_rect_size EXCEPT ![image_manager] = <<rect_size>>]
               /\ last_rect_pos' = [last_rect_pos EXCEPT ![image_manager] = rectangle]
          ELSE UNCHANGED <<mgr, last_rect_size, last_rect_pos>>
    /\ UNCHANGED <<rectangle, rect_size>>

\* Mutation of Cancel: the whole memory dropped, not the bound image's entry.
Cancel_clearing_all_memory ==
    /\ is_selecting' = TRUE
    /\ IF image_manager # NoImage
          THEN /\ mgr' = [mgr EXCEPT ![image_manager] = clear_crop(@)]
               /\ last_rect_size' = [i \in Images |-> None]
               /\ last_rect_pos' = [i \in Images |-> None]
               /\ rectangle' = _set_default_rectangle(scaled_pixmap, size, aspect_ratio,
                                                      rect_size, rectangle)
          ELSE UNCHANGED <<mgr, last_rect_size, last_rect_pos, rectangle>>
    /\ UNCHANGED rect_size

\* Lines 288-307: the selection cancelled.
Cancel ==
    /\ is_selecting' = TRUE
    /\ IF image_manager # NoImage
          THEN /\ mgr' = [mgr EXCEPT ![image_manager] = clear_crop(@)]
               /\ last_rect_size' = [last_rect_size EXCEPT ![image_manager] = None]
               /\ last_rect_pos' = [last_rect_pos EXCEPT ![image_manager] = None]
               /\ rectangle' = _set_default_rectangle(scaled_pixmap, size, aspect_ratio,
                                                      rect_size, rectangle)
          ELSE UNCHANGED <<mgr, last_rect_size, last_rect_pos, rectangle>>
    /\ UNCHANGED rect_size

\* The calls of set_crop made by Confirm on the bound record (lines 278-280
\* and 351-353).
ConfirmCalls ==
    IF image_manager # NoImage
    THEN <<<<"set_crop", _get_source_rect(image_manager, scaled_pixmap, size, rectangle)>>>>
    ELSE <<>>

\* Mutation of MousePressEvent: the left press applies the selection and
\* leaves the phase to the release.
MousePressEvent_leaving_phase(button) ==
    /\ IF aspect_ratio = None
          THEN UNCHANGED <<mgr, selVars>> /\ LogOut("mouse_press", image_manager, <<button>>, <<>>, "")
          ELSE IF button = "LeftButton"
          THEN IF is_selecting
               THEN /\ mgr' = [mgr EXCEPT ![image_manager] =
                                   IF image_manager = NoImage THEN @
                                   ELSE set_crop(@, _get_source_rect(image_manager,
                                                       scaled_pixmap, size, rectangle))]
                    /\ UNCHANGED selVars
                    /\ LogOut("mouse_press", image_manager, <<button>>, ConfirmCalls, "")
               ELSE UNCHANGED <<mgr, selVars>>
                    /\ LogOut("mouse_press", image_manager, <<button>>, <<>>, "")
          ELSE Cancel /\ UNCHANGED aspect_ratio
               /\ LogOut("mouse_press", image_manager, <<button>>, <<>>, "")
    /\ UNCHANGED <<image_list, model_path, viewVars>>
    /\ UNCHANGED routerVars

\* CropImageDisplay.mousePressEvent with the left or the right button; the
\* calls it makes on the bound record are logged.
MousePressEvent(button) ==
    /\ IF aspect_ratio = None
          THEN UNCHANGED <<mgr, selVars>> /\ LogOut("mouse_press", image_manager, <<button>>, <<>>, "")
          ELSE IF button = "LeftButton"
          THEN IF is_selecting
               THEN Confirm /\ UNCHANGED aspect_ratio
                    /\ LogOut("mouse_press", image_manager, <<button>>, ConfirmCalls, "")
               ELSE UNCHANGED <<mgr, selVars>>
                    /\ LogOut("mouse_press", image_manager, <<button>>, <<>>, "")
          ELSE Cancel /\ UNCHANGED aspect_ratio
               /\ LogOut("mouse_press", image_manager, <<button>>, <<>>, "")
    /\ UNCHANGED <<image_list, model_path, viewVars>>
    /\ UNCHANGED routerVars

\* CropImageDisplay.mouseReleaseEvent with the left or the right button.
MouseReleaseEvent(button) ==
    /\ IF button = "LeftButton" /\ is_selecting
          THEN Confirm /\ UNCHANGED aspect_ratio
               /\ LogOut("mouse_release", image_manager, <<button>>, ConfirmCalls, "")
          ELSE UNCHANGED <<mgr, selVars>>
               /\ LogOut("mouse_release", image_manager, <<button>>, <<>>, "")
    /\ UNCHANGED <<image_list, model_path, viewVars>>
    /\ UNCHANGED routerVars

\* Mutation of MouseMoveEvent: the rectangle follows the pointer in either
\* phase.
MouseMoveEvent_in_any_phase(pos) ==
    /\ rectangle' =
         IF aspect_ratio # None /\ image_manager # NoImage
         THEN _update_rectangle_position(scaled_pixmap, size, rectangle, pos)
         ELSE rectangle
    /\ Log("mouse_move", image_manager, pos, "")
    /\ UNCHANGED <<trackerVars, viewVars, aspect_ratio, rect_size, is_selecting,
                   last_rect_size, last_rect_pos>>
    /\ UNCHANGED routerVars

\* CropImageDisplay.mouseMoveEvent with the pointer at pos.
MouseMoveEvent(pos) ==
    /\ rectangle' =
         IF aspect_ratio # None /\ is_selecting /\ image_manager # NoImage
         THEN _update_rectangle_position(scaled_pixmap, size, rectangle, pos)
         ELSE rectangle
    /\ Log("mouse_move", image_manager, pos, "")
    /\ UNCHANGED <<trackerVars, viewVars, aspect_ratio, rect_size, is_selecting,
                   last_rect_size, last_rect_pos>>
    /\ UNCHANGED routerVars

\* CropImageDisplay.wheelEvent with event.angleDelta().y() = angle_delta.
WheelEvent(angle_delta) ==
    /\ IF aspect_ratio # None /\ is_selecting /\ image_manager # NoImage
          THEN LET r == wheel_rectangle(scaled_pixmap, size, aspect_ratio, rectangle,
                                        angle_delta)
               IN rectangle' = r[1] /\ rect_size' = r[2]
          ELSE UNCHANGED <<rectangle, rect_size>>
    /\ Log("wheel", image_manager, <<angle_delta>>, "")
    /\ UNCHANGED <<trackerVars, viewVars, aspect_ratio, is_selecting,
                   last_rect_size, last_rect_pos>>
    /\ UNCHANGED routerVars

\* The round trip of a rectangle r inside the bound image: to the display
\* as MarkImageDisplay._get_processed_image_rect maps it (lines 499-508),
\* and back as _get_source_rect maps a rectangle of the display.
RoundTrip(r) ==
    /\ image_manager # NoImage
    /\ r[1] + r[3] <= org_width(image_manager)
    /\ r[2] + r[4] <= org_height(image_manager)
    /\ LogOut("round_trip", image_manager, r,
              _get_source_rect(image_manager, scaled_pixmap, size,
                               display_rect(image_manager, scaled_pixmap, size, r)),
              "")
    /\ UNCHANGED <<trackerVars, viewVars, selVars>>
    /\ UNCHANGED routerVars

\* BaseImageDisplay.resizeEvent: the widget resized to new_size.
ResizeEvent(new_size) ==
    /\ size' = new_size
    /\ scaled_pixmap' = _scale_image(image_manager, new_size, scaled_pixmap)
    /\ Log("resize", image_manager, new_size, "")
    /\ UNCHANGED <<trackerVars, image_manager, selVars>>
    /\ UNCHANGED routerVars

\* CropImageDisplay.reset (and BaseImageDisplay.reset).
CropReset ==
    /\ image_manager' = NoImage
    /\ scaled_pixmap' = None
    /\ rectangle' = NullRect
    /\ is_selecting' = TRUE
    /\ Log("crop_reset", image_manager, None, "")
    /\ UNCHANGED <<trackerVars, size, aspect_ratio, rect_size,
                   last_rect_size, last_rect_pos>>
    /\ UNCHANGED routerVars

-----------------------------------------------------------------------------
(* The display router and the mode managers.  A handler of the application *)
(* calls several of their methods in turn, so the methods are operators on *)
(* the record RouterState of the router's fields, the crop display's       *)
(* fields among them, and an action applies the final record.  The field   *)
(* calls lists, in order, the calls made on the display components.        *)

NoMode == "None"
Components == {"default", "crop", "resize", "mark", "correct"}
PlainComponents == Components \ {"crop"}
OptModes == {"empty", "browse", "crop", "resize", "mark", "correct"}

\* ModeManager.mode_display_map.get(mode_name, 'default').
mode_display_map(mode_name) ==
    IF mode_name \in {"crop", "resize", "mark", "correct", "default"}
    THEN mode_name ELSE "default"

\* ModeDisplayManager.__init__ and ModeOptManager.__init__: every component
\* hidden, nothing bound, no mode; the ratio combo shows its first item.
InitRouter ==
    /\ display_mode = NoMode
    /\ display_image = NoImage
    /\ components = [c \in PlainComponents |-> NoImage]
    /\ shown = [c \in Components |-> FALSE]
    /\ opt_mode = NoMode
    /\ ratio_combo = <<"1", ":", "1">>
    /\ call_stack = <<>>

RouterState ==
    [opt_mode |-> opt_mode, mode |-> display_mode, image |-> display_image,
     components |-> components, shown |-> shown,
     crop |-> [image_manager |-> image_manager, scaled_pixmap |-> scaled_pixmap,
               aspect_ratio |-> aspect_ratio, rect_size |-> rect_size,
               rectangle |-> rectangle, is_selecting |-> is_selecting],
     calls |-> <<>>]

ApplyRouter(r) ==
    /\ opt_mode' = r.opt_mode
    /\ display_mode' = r.mode
    /\ display_image' = r.image
    /\ components' = r.components
    /\ shown' = r.shown
    /\ image_manager' = r.crop.image_manager
    /\ scaled_pixmap' = r.crop.scaled_pixmap
    /\ aspect_ratio' = r.crop.aspect_ratio
    /\ rect_size' = r.crop.rect_size
    /\ rectangle' = r.crop.rectangle
    /\ is_selecting' = r.crop.is_selecting

\* The image a display component is bound to.
BoundImage(c) == IF c = "crop" THEN image_manager ELSE components[c]

\* Mutation of crop_set_image: the remembered selection is not restored.
crop_set_image_forgetting(c, im) ==
    IF im = NoImage
    THEN [c EXCEPT !.image_manager = im, !.scaled_pixmap = None,
                   !.rectangle = NullRect]
    ELSE LET sp == _scale_image(im, size, c.scaled_pixmap) IN
         [c EXCEPT !.image_manager = im, !.scaled_pixmap = sp,
                   !.rectangle =
                       IF c.aspect_ratio # None
                       THEN _set_default_rectangle(sp, size, c.aspect_ratio,
                                                   c.rect_size, c.rectangle)
                       ELSE NullRect,
                   !.is_selecting = TRUE]

\* CropImageDisplay.set_image on the fields c of the crop display.
crop_set_image(c, im) ==
    IF im = NoImage
    THEN [c EXCEPT !.image_manager = im, !.scaled_pixmap = None,
                   !.rectangle = NullRect]
    ELSE LET sp == _scale_image(im, size, c.scaled_pixmap) IN
         IF last_rect_size[im] # None /\ c.aspect_ratio # None
         THEN [c EXCEPT !.image_manager = im, !.scaled_pixmap = sp,
                        !.rect_size = last_rect_size[im][1],
                        !.rectangle = last_rect_pos[im],
                        !.is_selecting = FALSE]
         ELSE [c EXCEPT !.image_manager = im, !.scaled_pixmap = sp,
                        !.rectangle =
                            IF c.aspect_ratio # None
                            THEN _set_default_rectangle(sp, size, c.aspect_ratio,
                                                        c.rect_size, c.rectangle)
                            ELSE NullRect,
                        !.is_selecting = TRUE]

\* CropImageDisplay.set_aspect_ratio on the fields c, for a text of the
\* ratio combo (its items are the five supported ratios, never empty).
crop_set_aspect_ratio(c, ratio_str) ==
    LET p == parse_ratio(ratio_str) IN
    IF p[1] = "ok"
    THEN [c EXCEPT !.aspect_ratio = <<p[2], p[3]>>,
                   !.rectangle =
                       IF c.image_manager # NoImage
                       THEN _set_default_rectangle(c.scaled_pixmap, size,
                                                   <<p[2], p[3]>>, c.rect_size, @)
                       ELSE @]
    ELSE c

\* CropImageDisplay.reset on the fields c.
crop_reset(c) ==
    [c EXCEPT !.image_manager = NoImage, !.scaled_pixmap = None,
              !.rectangle = NullRect, !.is_selecting = TRUE]

\* set_image(im) called on the component named name.
component_set_image(r, name, im) ==
    IF name = "crop"
    THEN [r EXCEPT !.crop = crop_set_image(@, im),
                   !.calls = Append(@, <<"set_image", name>>)]
    ELSE [r EXCEPT !.components[name] = im,
                   !.calls = Append(@, <<"set_image", name>>)]

\* Mutation of ModeDisplayManager.set_mode: the previous component is
\* neither hidden nor told that its mode is left.
ModeDisplayManager_set_mode_keeping_previous(r, mode) ==
    IF mode \notin Components THEN r
    ELSE LET r2 == [r EXCEPT !.mode = mode]
             r3 == IF r2.image # NoImage
                   THEN component_set_image(r2, mode, r2.image) ELSE r2
         IN [r3 EXCEPT !.shown[mode] = TRUE,
                       !.calls = @ \o <<<<"show", mode>>, <<"on_enter_mode", mode>>>>]

\* ModeDisplayManager.set_mode(mode).  The layout holds the previous
\* component only, so clearing it hides nothing that is still shown.
ModeDisplayManager_set_mode(r, mode) ==
    IF mode \notin Components THEN r
    ELSE LET r1 == IF r.mode # NoMode
                   THEN [r EXCEPT !.shown[r.mode] = FALSE,
                                  !.calls = @ \o <<<<"hide", r.mode>>,
                                                   <<"on_exit_mode", r.mode>>>>]
                   ELSE r
             r2 == [r1 EXCEPT !.mode = mode]
             r3 == IF r2.image # NoImage
                   THEN component_set_image(r2, mode, r2.image) ELSE r2
         IN [r3 EXCEPT !.shown[mode] = TRUE,
                       !.calls = @ \o <<<<"show", mode>>, <<"on_enter_mode", mode>>>>]

\* ModeDisplayManager.set_image(image_manager).
ModeDisplayManager_set_image(r, im) ==
    LET r1 == [r EXCEPT !.image = im] IN
    IF r1.mode # NoMode THEN component_set_image(r1, r1.mode, im) ELSE r1

\* ModeDisplayManager.reset: every component reset, shown or not.
ModeDisplayManager_reset(r) ==
    [r EXCEPT !.components = [c \in PlainComponents |-> NoImage],
              !.crop = crop_reset(@),
              !.calls = @ \o <<<<"reset", "default">>, <<"reset", "crop">>,
                               <<"reset", "resize">>, <<"reset", "mark">>,
                               <<"reset", "correct">>>>]

\* ModeManager.set_mode(mode_name): the operation area first (CropOptMode's
\* on_enter hands the combo's ratio to the display that is current then),
\* the display second; a name the operation area does not know ends it.
ModeManager_set_mode(r, mode_name) ==
    IF mode_name = NoMode
    THEN ModeDisplayManager_reset([r EXCEPT !.opt_mode = NoMode])
    ELSE IF mode_name \notin OptModes THEN r
    ELSE LET r1 == [r EXCEPT !.opt_mode = mode_name]
             r2 == IF mode_name = "crop" /\ r1.mode = "crop"
                   THEN [r1 EXCEPT !.crop = crop_set_aspect_ratio(@, ratio_combo)]
                   ELSE r1
         IN ModeDisplayManager_set_mode(r2, mode_display_map(mode_name))

\* ModeManager.exit_current_mode.
ModeManager_exit_current_mode(r) ==
    ModeDisplayManager_set_mode([r EXCEPT !.opt_mode = NoMode], "default")

\* ModeManager.reset.
ModeManager_reset(r) == ModeDisplayManager_reset(ModeManager_exit_current_mode(r))

\* MainWindow._update_buttons_state, run when the table's rows change: the
\* no-mode state once the list is empty.  Its set_mode('default') for a
\* list with images is refused by the operation area, which has no mode
\* of that name.
_update_buttons_state(r, list) ==
    IF r.opt_mode # NoMode /\ list = <<>> THEN ModeManager_set_mode(r, NoMode) ELSE r

\* ImageListWidget.update_table for the list after a change of its rows.
update_table(r, list) ==
    IF list = <<>> THEN ModeManager_reset(_update_buttons_state(r, list)) ELSE r

\* ImageListWidget.on_image_selected(row, 0), rows counted from 1.
on_image_selected(r, list, row) ==
    IF row \in 1..Len(list)
    THEN ModeDisplayManager_set_image(r, list[row])
    ELSE ModeManager_reset(r)

\* ImageDataManager.__init__(image_path): cv2.imread gives None for a file
\* that is no image.
Files == Images \cup {"X"}
ImageDataManager(image_path) ==
    IF image_path \in Images THEN <<"ok", reset>> ELSE <<"ValueError">>

\* Mutation of new_images: the batch given up at the first file that fails.
new_images_until_failure(list, file_names) ==
    LET first_bad == IF \E k \in 1..Len(file_names) :
                            ImageDataManager(file_names[k])[1] # "ok"
                     THEN CHOOSE k \in 1..Len(file_names) :
                            /\ ImageDataManager(file_names[k])[1] # "ok"
                            /\ \A j \in 1..(k - 1) :
                                   ImageDataManager(file_names[j])[1] = "ok"
                     ELSE Len(file_names) + 1
    IN SelectSeq(SubSeq(file_names, 1, first_bad - 1),
                 LAMBDA f : \A k \in 1..Len(list) : list[k] # f)

\* The loop of import_image from file k on (lines 111-129), files named by
\* their normalised lower-case path: a file whose path is in the list is
\* counted as a duplicate, a ValueError of the constructor is reported and
\* the loop goes on, any other exception would leave the handler.  The
\* result is <<new_images, duplicate_count, exception>>.
RECURSIVE import_loop(_, _, _, _, _)
import_loop(list, file_names, k, new, duplicate_count) ==
    IF k > Len(file_names) THEN <<new, duplicate_count, "">>
    ELSE IF \E j \in 1..Len(list) : list[j] = file_names[k]
    THEN import_loop(list, file_names, k + 1, new, duplicate_count + 1)
    ELSE LET img_manager == ImageDataManager(file_names[k]) IN
         IF img_manager[1] = "ok"
         THEN import_loop(list, file_names, k + 1, Append(new, file_names[k]),
                          duplicate_count)
         ELSE IF img_manager[1] = "ValueError"
         THEN import_loop(list, file_names, k + 1, new, duplicate_count)
         ELSE <<new, duplicate_count, img_manager[1]>>

\* The new_images of import_image after its loop.
new_images(list, file_names) == import_loop(list, file_names, 1, <<>>, 0)[1]

\* ModeDisplayManager.set_mode(mode), called as ModeManager.setup_ui does.
DisplaySetMode(mode) ==
    \E r \in {ModeDisplayManager_set_mode(RouterState, mode)} :
    /\ ApplyRouter(r)
    /\ LogOut("display_set_mode", display_image, <<mode>>, r.calls, "")
    /\ UNCHANGED <<trackerVars, size, last_rect_size, last_rect_pos, ratio_combo>>
    /\ UNCHANGED call_stack

\* ModeDisplayManager.set_image(record of im).
DisplaySetImage(im) ==
    /\ InList(im)
    /\ \E r \in {ModeDisplayManager_set_image(RouterState, im)} :
        /\ ApplyRouter(r)
        /\ LogOut("display_set_image", im, None, r.calls, "")
    /\ UNCHANGED <<trackerVars, size, last_rect_size, last_rect_pos, ratio_combo>>
    /\ UNCHANGED call_stack

\* ModeDisplayManager.reset.
DisplayReset ==
    \E r \in {ModeDisplayManager_reset(RouterState)} :
    /\ ApplyRouter(r)
    /\ LogOut("display_reset", display_image, None, r.calls, "")
    /\ UNCHANGED <<trackerVars, size, last_rect_size, last_rect_pos, ratio_combo>>
    /\ UNCHANGED call_stack

\* MainWindow.set_mode(mode) from a mode button, the dialog answered Yes.
AppSetMode(mode) ==
    \E r \in {ModeManager_set_mode(RouterState, mode)} :
    /\ ApplyRouter(r)
    /\ LogOut("set_mode", display_image, <<mode>>, r.calls, "")
    /\ UNCHANGED <<trackerVars, size, last_rect_size, last_rect_pos, ratio_combo>>
    /\ UNCHANGED call_stack

\* CropOptMode.on_ratio_changed(ratio_str): the combo of the crop mode's
\* operation area set to another of its items.
OnRatioChanged(ratio_str) ==
    /\ opt_mode = "crop"
    /\ ratio_str # ratio_combo
    /\ ratio_combo' = ratio_str
    /\ \E r \in {IF display_mode = "crop"
                 THEN [RouterState EXCEPT !.crop = crop_set_aspect_ratio(@, ratio_str)]
                 ELSE RouterState} :
        /\ ApplyRouter(r)
        /\ LogOut("ratio_changed", image_manager, ratio_str, r.calls, "")
    /\ UNCHANGED <<trackerVars, size, last_rect_size, last_rect_pos>>
    /\ UNCHANGED call_stack

\* A click on row `row` of the table: ImageListWidget.on_image_selected.
OnImageSelected(row) ==
    /\ row \in 1..Len(image_list)
    /\ \E r \in {on_image_selected(RouterState, image_list, row)} :
        /\ ApplyRouter(r)
        /\ LogOut("image_selected", image_list[row], None, r.calls, "")
    /\ UNCHANGED <<trackerVars, size, last_rect_size, last_rect_pos, ratio_combo>>
    /\ UNCHANGED call_stack

\* ImageListWidget.import_image with file_names chosen in the dialog.
ImportImage(file_names) ==
    \E new \in {new_images(image_list, file_names)} :
    /\ IF new # <<>>
          THEN /\ image_list' = image_list \o new
               /\ mgr' = [i \in Images |->
                            IF \E k \in 1..Len(new) : new[k] = i
                            THEN ImageDataManager(i)[2] ELSE mgr[i]]
               /\ \E r \in {on_image_selected(
                               update_table(RouterState, image_list \o new),
                               image_list \o new, Len(image_list) + 1)} :
                    ApplyRouter(r)
          ELSE UNCHANGED <<image_list, mgr, viewVars, aspect_ratio, rect_size,
                           rectangle, is_selecting, display_mode, display_image,
                           components, shown, opt_mode>>
    /\ LogOut("import_image", NoImage, file_names, image_list,
              import_loop(image_list, file_names, 1, <<>>, 0)[3])
    /\ UNCHANGED <<model_path, size, last_rect_size, last_rect_pos, ratio_combo>>
    /\ UNCHANGED call_stack

\* The list without the rows of the set rows.
RemoveRows(list, rows) ==
    LET keep == {k \in 1..Len(list) : k \notin rows}
        nth[n \in 0..Len(list)] ==
            IF n = 0 THEN 0
            ELSE CHOOSE k \in keep : k > nth[n - 1] /\ \A j \in keep : j > nth[n - 1] => k <= j
    IN [n \in 1..Cardinality(keep) |-> list[nth[n]]]

\* ImageListWidget.delete_image with the rows of `rows` selected and the
\* dialog answered Yes.
DeleteImage(rows) ==
    /\ rows # {}
    /\ rows \subseteq 1..Len(image_list)
    /\ \E list \in {RemoveRows(image_list, rows)} :
        /\ image_list' = list
        /\ \E r \in {LET r1 == update_table(RouterState, list)
                         last_row == CHOOSE k \in rows : \A j \in rows : j <= k
                     IN IF list # <<>>
                        THEN on_image_selected(r1, list, Min(last_row, Len(list)))
                        ELSE ModeManager_set_mode(r1, "empty")} :
            /\ ApplyRouter(r)
            /\ LogOut("delete_image", NoImage, {image_list[k] : k \in rows},
                      r.calls, "")
    /\ UNCHANGED <<mgr, model_path, size, last_rect_size, last_rect_pos, ratio_combo>>
    /\ UNCHANGED call_stack

\* ImageListWidget.delete_workspace with the dialog answered Yes.
DeleteWorkspace ==
    /\ image_list # <<>>
    /\ image_list' = <<>>
    /\ \E r \in {ModeManager_set_mode(update_table(RouterState, <<>>), "empty")} :
        /\ ApplyRouter(r)
        /\ LogOut("delete_workspace", NoImage,
                  {image_list[k] : k \in 1..Len(image_list)}, r.calls, "")
    /\ UNCHANGED <<mgr, model_path, size, last_rect_size, last_rect_pos, ratio_combo>>
    /\ UNCHANGED call_stack

-----------------------------------------------------------------------------
(* A click on a row of the table, step by step.  update_process_info runs *)
(* QApplication.processEvents(), so the handler of the click lets the       *)
(* event loop handle pending events at each status update: it is a frame   *)
(* of call_stack, and the handlers of events run when no handler is in     *)
(* progress or when the innermost one is at such an update.                *)

\* The depth of handlers in progress explored.
MaxDepth == 2

\* The innermost handler in progress.
Top == call_stack[Len(call_stack)]

\* Mutation of PumpPoints: a status update between the binding of the
\* image and the loading of its pixmap in set_image.
PumpPoints_in_set_image == {"selected_info", "displayed_info", "set_image_bound"}

\* The positions of the handler at which it runs update_process_info:
\* on_image_selected's _update_info (image_list_widget.py, line 322) and
\* display_selected_image's update (main.py, line 303).
PumpPoints == {"selected_info", "displayed_info"}

\* The event loop is handling events.
Pumping == IF call_stack = <<>> THEN TRUE ELSE Top.pc \in PumpPoints

SetPc(l) == call_stack' = [call_stack EXCEPT ![Len(call_stack)].pc = l]

\* on_image_selected(row, 0) up to its status update (lines 313-322).
OnImageSelectedBegin(row) ==
    /\ Pumping
    /\ Len(call_stack) < MaxDepth
    /\ row \in 1..Len(image_list)
    /\ call_stack' = Append(call_stack, [pc |-> "selected_info", img |-> image_list[row]])
    /\ Log("image_selected_begin", image_list[row], None, "")
    /\ UNCHANGED <<trackerVars, viewVars, selVars, display_mode, display_image,
                   components, shown, opt_mode, ratio_combo>>

\* display_selected_image -> ModeManager.set_image -> ModeDisplayManager
\* .set_image with the crop display current, into CropImageDisplay
\* .set_image: the image bound (line 92).
SetImageBind ==
    /\ call_stack # <<>> /\ Top.pc = "selected_info"
    /\ display_mode = "crop"
    /\ display_image' = Top.img
    /\ image_manager' = Top.img
    /\ SetPc("set_image_bound")
    /\ Log("set_image_bind", Top.img, None, "")
    /\ UNCHANGED <<trackerVars, scaled_pixmap, size, selVars, display_mode,
                   components, shown, opt_mode, ratio_combo>>

\* CropImageDisplay.set_image, lines 94-96: the pixmap loaded and scaled.
SetImageScale ==
    /\ call_stack # <<>> /\ Top.pc = "set_image_bound"
    /\ scaled_pixmap' = _scale_image(image_manager, size, scaled_pixmap)
    /\ SetPc("set_image_scaled")
    /\ Log("set_image_scale", image_manager, None, "")
    /\ UNCHANGED <<trackerVars, image_manager, size, selVars, display_mode,
                   display_image, components, shown, opt_mode, ratio_combo>>

\* CropImageDisplay.set_image, lines 98-110: the remembered selection
\* restored or the default rectangle set; on return the status is updated.
SetImageFinish ==
    /\ call_stack # <<>> /\ Top.pc = "set_image_scaled"
    /\ IF last_rect_size[image_manager] # None /\ aspect_ratio # None
          THEN /\ rect_size' = last_rect_size[image_manager][1]
               /\ rectangle' = last_rect_pos[image_manager]
               /\ is_selecting' = FALSE
          ELSE /\ rectangle' =
                    IF aspect_ratio # None
                    THEN _set_default_rectangle(scaled_pixmap, size, aspect_ratio,
                                                rect_size, rectangle)
                    ELSE NullRect
               /\ is_selecting' = TRUE
               /\ UNCHANGED rect_size
    /\ SetPc("displayed_info")
    /\ Log("set_image_finish", image_manager, None, "")
    /\ UNCHANGED <<trackerVars, viewVars, aspect_ratio, last_rect_size, last_rect_pos,
                   display_mode, display_image, components, shown, opt_mode,
                   ratio_combo>>

\* The handler returns after its last status update.
OnImageSelectedEnd ==
    /\ call_stack # <<>> /\ Top.pc = "displayed_info"
    /\ call_stack' = SubSeq(call_stack, 1, Len(call_stack) - 1)
    /\ Log("image_selected_end", Top.img, None, "")
    /\ UNCHANGED <<trackerVars, viewVars, selVars, display_mode, display_image,
                   components, shown, opt_mode, ratio_combo>>

-----------------------------------------------------------------------------
(* Spec: the pipeline state of the images under the stage setters, the     *)
(* mode actions and the selector operations that write to it.              *)

\* Inputs of the stage setters.
RoiInputs == {<<10, 20, 300, 300>>}
ResizeInputs == {<<512, 512>>}
PromptInputs == {<<"a cat">>}
FixInputs == {<<"a dog">>}

\* Inputs of set_aspect_ratio: "1:1", "", " " and "abc".
RatioInputs == {<<"1", ":", "1">>, <<>>, <<" ">>, <<"a", "b", "c">>}

Buttons == {"LeftButton", "RightButton"}
InitialSize == <<400, 300>>
default_rect_size == 512

\* The state after construction: images loaded, nothing bound to the selector.
InitWith(list) ==
    /\ InitRouter
    /\ image_list = list
    /\ mgr = [i \in Images |-> reset]
    /\ model_path = ""
    /\ image_manager = NoImage
    /\ scaled_pixmap = None
    /\ size = InitialSize
    /\ aspect_ratio = None
    /\ rect_size = default_rect_size
    /\ rectangle = NullRect
    /\ is_selecting = TRUE
    /\ last_rect_size = [i \in Images |-> None]
    /\ last_rect_pos = [i \in Images |-> None]
    /\ last = [op |-> "init", img |-> NoImage, arg |-> None, pre |-> reset,
               out |-> None, exc |-> ""]

Init == \E i \in Images : InitWith(<<i>>)

Next ==
    \/ \E i \in Images, roi \in RoiInputs : SetCrop(i, roi)
    \/ \E i \in Images, r \in ResizeInputs : SetResize(i, r)
    \/ \E i \in Images, q \in PromptInputs : SetInfer(i, q)
    \/ \E i \in Images, q \in FixInputs : SetFix(i, q)
    \/ \E i \in Images : Reset(i)
    \/ \E i \in Images : ResizePerformAction(i)
    \/ SelectModel
    \/ \E i \in Images : MarkPerformAction(i)
    \/ \E i \in Images : CorrectPerformApply(i)
    \/ \E im \in Images \cup {NoImage} : SetImage(im)
    \/ \E str \in RatioInputs : SetAspectRatio(str)
    \/ \E b \in Buttons : MousePressEvent(b)
    \/ \E b \in Buttons : MouseReleaseEvent(b)
    \/ CropReset

Spec == Init /\ [][Next]_vars

-----------------------------------------------------------------------------
(* SpecGeom: the selector on one image under pointer moves, wheel steps,   *)
(* clicks, set_rect_size and resizes of the widget.  The widget is small,  *)
(* so that image A is displayed at 160 x 120 or 159 x 119 and image B at   *)
(* 20 x 120.  Over these sizes every float product and quotient of the     *)
(* handlers truncates to the same integer as the exact one.                *)

GeomSizes == {<<160, 120>>, <<159, 120>>}
GeomRatioInputs == {<<"1", ":", "1">>, <<>>}
GeomRectSizes == {110}
Pointers == {<<0, 0>>, <<80, 60>>}
AngleDeltas == {120, -120}

InitGeom ==
    \E i \in Images, sz \in GeomSizes :
        /\ InitRouter
        /\ image_list = <<i>>
        /\ mgr = [j \in Images |-> reset]
        /\ model_path = ""
        /\ image_manager = NoImage
        /\ scaled_pixmap = None
        /\ size = sz
        /\ aspect_ratio = None
        /\ rect_size = default_rect_size
        /\ rectangle = NullRect
        /\ is_selecting = TRUE
        /\ last_rect_size = [j \in Images |-> None]
        /\ last_rect_pos = [j \in Images |-> None]
        /\ last = [op |-> "init", img |-> NoImage, arg |-> None, pre |-> reset,
                   out |-> None, exc |-> ""]

NextGeom ==
    \/ \E im \in Images : SetImage(im)
    \/ \E str \in GeomRatioInputs : SetAspectRatio(str)
    \/ \E n \in GeomRectSizes : SetRectSize(n)
    \/ \E b \in Buttons : MousePressEvent(b)
    \/ \E b \in Buttons : MouseReleaseEvent(b)
    \/ \E pos \in Pointers : MouseMoveEvent(pos)
    \/ \E d \in AngleDeltas : WheelEvent(d)
    \/ \E sz \in GeomSizes : ResizeEvent(sz)

SpecGeom == InitGeom /\ [][NextGeom]_vars

-----------------------------------------------------------------------------
(* SpecScroll: wheel steps on image A displayed at 400 x 300, under each   *)
(* of the ratios the crop panel offers (component_opt_widgets, line 84).   *)

ScrollSize == <<400, 300>>
SupportedRatios ==
    {<<"1", ":", "1">>, <<"3", ":", "4">>, <<"4", ":", "3">>,
     <<"9", ":", "1", "6">>, <<"1", "6", ":", "9">>}

InitScroll ==
    /\ InitRouter
    /\ image_list = <<"A">>
    /\ mgr = [j \in Images |-> reset]
    /\ model_path = ""
    /\ image_manager = NoImage
    /\ scaled_pixmap = None
    /\ size = ScrollSize
    /\ aspect_ratio = None
    /\ rect_size = default_rect_size
    /\ rectangle = NullRect
    /\ is_selecting = TRUE
    /\ last_rect_size = [j \in Images |-> None]
    /\ last_rect_pos = [j \in Images |-> None]
    /\ last = [op |-> "init", img |-> NoImage, arg |-> None, pre |-> reset,
               out |-> None, exc |-> ""]

NextScroll ==
    \/ SetImage("A")
    \/ \E str \in SupportedRatios : SetAspectRatio(str)
    \/ \E b \in Buttons : MousePressEvent(b)
    \/ \E d \in AngleDeltas : WheelEvent(d)

SpecScroll == InitScroll /\ [][NextScroll]_vars

-----------------------------------------------------------------------------
(* SpecMap: the mapping between original-image pixels and the display, on  *)
(* rectangles inside the image, with the image displayed at scales from    *)
(* 1/10 to 2.  Over these inputs every float product of the two mappings   *)
(* truncates to the same integer as the exact one.                         *)

MapSizes == {<<200, 1200>>, <<150, 900>>, <<100, 600>>, <<50, 300>>, <<10, 60>>}
MapRects == {0, 7, 33} \X {0, 50} \X {1, 10, 67} \X {1, 100, 550}

InitMap ==
    \E i \in Images, sz \in MapSizes :
        /\ InitRouter
        /\ image_list = <<i>>
        /\ mgr = [j \in Images |-> reset]
        /\ model_path = ""
        /\ image_manager = NoImage
        /\ scaled_pixmap = None
        /\ size = sz
        /\ aspect_ratio = None
        /\ rect_size = default_rect_size
        /\ rectangle = NullRect
        /\ is_selecting = TRUE
        /\ last_rect_size = [j \in Images |-> None]
        /\ last_rect_pos = [j \in Images |-> None]
        /\ last = [op |-> "init", img |-> NoImage, arg |-> None, pre |-> reset,
                   out |-> None, exc |-> ""]

NextMap ==
    \/ \E im \in Images : SetImage(im)
    \/ \E sz \in MapSizes : ResizeEvent(sz)
    \/ \E r \in MapRects : RoundTrip(r)

SpecMap == InitMap /\ [][NextMap]_vars

-----------------------------------------------------------------------------
(* SpecDefault: the default rectangle, computed by set_image,              *)
(* set_aspect_ratio and set_rect_size on either image, in viewports that   *)
(* display it smaller and larger than rect_size, under each ratio of the   *)
(* crop panel.                                                             *)

DefaultSizes == {<<160, 120>>, <<400, 300>>, <<120, 400>>, <<1000, 700>>}

InitDefault ==
    \E i \in Images, sz \in DefaultSizes :
        /\ InitRouter
        /\ image_list = <<i>>
        /\ mgr = [j \in Images |-> reset]
        /\ model_path = ""
        /\ image_manager = NoImage
        /\ scaled_pixmap = None
        /\ size = sz
        /\ aspect_ratio = None
        /\ rect_size = default_rect_size
        /\ rectangle = NullRect
        /\ is_selecting = TRUE
        /\ last_rect_size = [j \in Images |-> None]
        /\ last_rect_pos = [j \in Images |-> None]
        /\ last = [op |-> "init", img |-> NoImage, arg |-> None, pre |-> reset,
                   out |-> None, exc |-> ""]

NextDefault ==
    \/ \E im \in Images : SetImage(im)
    \/ \E str \in SupportedRatios : SetAspectRatio(str)
    \/ \E n \in GeomRectSizes : SetRectSize(n)
    \/ \E sz \in DefaultSizes : ResizeEvent(sz)

SpecDefault == InitDefault /\ [][NextDefault]_vars

-----------------------------------------------------------------------------
(* SpecSwitch: the selector with both images in the working set, bound to  *)
(* one or the other in turn, under clicks, pointer moves and wheel steps.  *)

SwitchSize == <<160, 120>>
SwitchRatioInputs == {<<"1", ":", "1">>}

InitSwitch ==
    /\ InitRouter
    /\ image_list = <<"A", "B">>
    /\ mgr = [j \in Images |-> reset]
    /\ model_path = ""
    /\ image_manager = NoImage
    /\ scaled_pixmap = None
    /\ size = SwitchSize
    /\ aspect_ratio = None
    /\ rect_size = default_rect_size
    /\ rectangle = NullRect
    /\ is_selecting = TRUE
    /\ last_rect_size = [j \in Images |-> None]
    /\ last_rect_pos = [j \in Images |-> None]
    /\ last = [op |-> "init", img |-> NoImage, arg |-> None, pre |-> reset,
               out |-> None, exc |-> ""]

NextSwitch ==
    \/ \E im \in Images \cup {NoImage} : SetImage(im)
    \/ \E str \in SwitchRatioInputs : SetAspectRatio(str)
    \/ \E b \in Buttons : MousePressEvent(b)
    \/ \E b \in Buttons : MouseReleaseEvent(b)
    \/ \E pos \in Pointers \cup {<<90, 60>>} : MouseMoveEvent(pos)
    \/ \E d \in AngleDeltas : WheelEvent(d)

SpecSwitch == InitSwitch /\ [][NextSwitch]_vars

-----------------------------------------------------------------------------
(* SpecRatio: set_aspect_ratio with well-formed and malformed strings on   *)
(* the selector bound to image A, between clicks and pointer moves.       *)

\* "4:3", "", "abc", "4:x", "1:2:3", "4:0", "0:3", "-4:3" and "4:-3".
RatioStrings ==
    {<<"4", ":", "3">>, <<>>, <<"a", "b", "c">>, <<"4", ":", "x">>,
     <<"1", ":", "2", ":", "3">>, <<"4", ":", "0">>, <<"0", ":", "3">>,
     <<"-", "4", ":", "3">>, <<"4", ":", "-", "3">>}

InitRatio ==
    /\ InitRouter
    /\ image_list = <<"A">>
    /\ mgr = [j \in Images |-> reset]
    /\ model_path = ""
    /\ image_manager = NoImage
    /\ scaled_pixmap = None
    /\ size = SwitchSize
    /\ aspect_ratio = None
    /\ rect_size = default_rect_size
    /\ rectangle = NullRect
    /\ is_selecting = TRUE
    /\ last_rect_size = [j \in Images |-> None]
    /\ last_rect_pos = [j \in Images |-> None]
    /\ last = [op |-> "init", img |-> NoImage, arg |-> None, pre |-> reset,
               out |-> None, exc |-> ""]

NextRatio ==
    \/ \E im \in {"A", NoImage} : SetImage(im)
    \/ \E str \in RatioStrings : SetAspectRatio(str)
    \/ \E b \in Buttons : MousePressEvent(b)
    \/ \E pos \in Pointers : MouseMoveEvent(pos)

SpecRatio == InitRatio /\ [][NextRatio]_vars

-----------------------------------------------------------------------------
(* SpecApp: the application from its start with an empty working set:     *)
(* imports, removals, selections in the table, the mode buttons, the ratio *)
(* combo, and clicks on the crop display while it is shown.                *)

\* The batches of the file dialog: distinct files, "X" is no image.
Batches == {<<"A">>, <<"X">>, <<"B", "X", "A">>}
ModeButtons == {"default", "crop", "resize"}
ComboRatios == {<<"1", ":", "1">>, <<"4", ":", "3">>}
\* The rows a table of these images can have.
Rows == 1..Cardinality(Images)

\* MainWindow.__init__: setup_ui shows the default display, then the empty
\* mode is set for the empty list.
InitApp ==
    /\ image_list = <<>>
    /\ mgr = [j \in Images |-> reset]
    /\ model_path = ""
    /\ image_manager = NoImage
    /\ scaled_pixmap = None
    /\ size = SwitchSize
    /\ aspect_ratio = None
    /\ rect_size = default_rect_size
    /\ rectangle = NullRect
    /\ is_selecting = TRUE
    /\ last_rect_size = [i \in Images |-> None]
    /\ last_rect_pos = [i \in Images |-> None]
    /\ display_mode = "default"
    /\ display_image = NoImage
    /\ components = [c \in PlainComponents |-> NoImage]
    /\ shown = [c \in Components |-> c = "default"]
    /\ opt_mode = "empty"
    /\ ratio_combo = <<"1", ":", "1">>
    /\ call_stack = <<>>
    /\ last = [op |-> "init", img |-> NoImage, arg |-> None, pre |-> reset,
               out |-> None, exc |-> ""]

NextApp ==
    \/ \E file_names \in Batches : ImportImage(file_names)
    \/ \E rows \in SUBSET Rows : DeleteImage(rows)
    \/ DeleteWorkspace
    \/ \E row \in Rows : OnImageSelected(row)
    \/ \E mode \in ModeButtons : AppSetMode(mode)
    \/ \E str \in ComboRatios : OnRatioChanged(str)
    \/ \E b \in Buttons : shown["crop"] /\ MousePressEvent(b)
    \/ \E b \in Buttons : shown["crop"] /\ MouseReleaseEvent(b)

SpecApp == InitApp /\ [][NextApp]_vars

-----------------------------------------------------------------------------
(* SpecDisplay: the display router called directly, two images loaded.     *)

ModeNames == Components \cup {"empty", "browse"}

InitDisplay ==
    /\ InitRouter
    /\ image_list = <<"A", "B">>
    /\ mgr = [j \in Images |-> reset]
    /\ model_path = ""
    /\ image_manager = NoImage
    /\ scaled_pixmap = None
    /\ size = SwitchSize
    /\ aspect_ratio = None
    /\ rect_size = default_rect_size
    /\ rectangle = NullRect
    /\ is_selecting = TRUE
    /\ last_rect_size = [i \in Images |-> None]
    /\ last_rect_pos = [i \in Images |-> None]
    /\ last = [op |-> "init", img |-> NoImage, arg |-> None, pre |-> reset,
               out |-> None, exc |-> ""]

NextDisplay ==
    \/ \E mode \in ModeNames : DisplaySetMode(mode)
    \/ \E im \in Images : DisplaySetImage(im)
    \/ DisplayReset
    \/ \E str \in SwitchRatioInputs : shown["crop"] /\ SetAspectRatio(str)
    \/ \E b \in Buttons : shown["crop"] /\ MousePressEvent(b)

SpecDisplay == InitDisplay /\ [][NextDisplay]_vars

-----------------------------------------------------------------------------
(* SpecPump: clicks on the rows of the table handled step by step with    *)
(* the crop display shown, the pointer events and the changes of ratio      *)
(* handled whenever the event loop runs.                                    *)

\* The pointer at the centre of the viewport, the wheel turned down a notch.
PumpPointers == {<<80, 60>>}
PumpAngleDeltas == {-120}

InitPump ==
    /\ image_list = <<"A", "B">>
    /\ mgr = [j \in Images |-> reset]
    /\ model_path = ""
    /\ image_manager = NoImage
    /\ scaled_pixmap = None
    /\ size = SwitchSize
    /\ aspect_ratio = None
    /\ rect_size = default_rect_size
    /\ rectangle = NullRect
    /\ is_selecting = TRUE
    /\ last_rect_size = [i \in Images |-> None]
    /\ last_rect_pos = [i \in Images |-> None]
    /\ display_mode = "crop"
    /\ display_image = NoImage
    /\ components = [c \in PlainComponents |-> NoImage]
    /\ shown = [c \in Components |-> c = "crop"]
    /\ opt_mode = "crop"
    /\ ratio_combo = <<"1", ":", "1">>
    /\ call_stack = <<>>
    /\ last = [op |-> "init", img |-> NoImage, arg |-> None, pre |-> reset,
               out |-> None, exc |-> ""]

NextPump ==
    \/ \E row \in Rows : OnImageSelectedBegin(row)
    \/ SetImageBind
    \/ SetImageScale
    \/ SetImageFinish
    \/ OnImageSelectedEnd
    \/ \E str \in SwitchRatioInputs : Pumping /\ SetAspectRatio(str)
    \/ \E b \in Buttons : Pumping /\ MousePressEvent(b)
    \/ \E pos \in PumpPointers : Pumping /\ MouseMoveEvent(pos)
    \/ \E d \in PumpAngleDeltas : Pumping /\ WheelEvent(d)

SpecPump == InitPump /\ [][NextPump]_vars

-----------------------------------------------------------------------------
(* SpecPhase: every operation of the selector, reset included, on image A  *)
(* in a widget of either size.                                              *)

InitPhase ==
    \E sz \in GeomSizes :
        /\ InitRouter
        /\ image_list = <<"A">>
        /\ mgr = [j \in Images |-> reset]
        /\ model_path = ""
        /\ image_manager = NoImage
        /\ scaled_pixmap = None
        /\ size = sz
        /\ aspect_ratio = None
        /\ rect_size = default_rect_size
        /\ rectangle = NullRect
        /\ is_selecting = TRUE
        /\ last_rect_size = [j \in Images |-> None]
        /\ last_rect_pos = [j \in Images |-> None]
        /\ last = [op |-> "init", img |-> NoImage, arg |-> None, pre |-> reset,
                   out |-> None, exc |-> ""]

NextPhase ==
    \/ SetImage("A")
    \/ \E str \in GeomRatioInputs : SetAspectRatio(str)
    \/ \E n \in GeomRectSizes : SetRectSize(n)
    \/ \E b \in Buttons : MousePressEvent(b)
    \/ \E b \in Buttons : MouseReleaseEvent(b)
    \/ \E pos \in PumpPointers : MouseMoveEvent(pos)
    \/ \E d \in PumpAngleDeltas : WheelEvent(d)
    \/ \E sz \in GeomSizes : ResizeEvent(sz)
    \/ CropReset

SpecPhase == InitPhase /\ [][NextPhase]_vars

-----------------------------------------------------------------------------
(* Properties of the pipeline state, checked under Spec.                   *)

Staged(m, k) == BitAnd(m.state, STATE_ORDER[k]) # 0
Payload(m, k) == <<m.roi, m.resize, m.prompt, m.fix_prompt>>[k]
Stages == 1..Len(STATE_ORDER)

\* C1: in every reachable state the state of every image is a prefix of
\* CROP, RESIZE, INFER, FIX: no later stage's bit is set unless every earlier
\* stage's bit is set too.
C1_PrefixInvariant ==
    \A i \in Images : \A k \in Stages : \A j \in 1..(k - 1) :
        Staged(mgr[i], k) => Staged(mgr[i], j)

\* C2: after set_crop(roi) on an image in any state, the state is the CROP
\* bit alone, roi is the argument and resize, prompt and fix_prompt are None.
C2_SetCropLeavesCropOnly ==
    last.op = "set_crop" =>
        mgr[last.img] = [state |-> STATE_CROP, roi |-> last.arg, resize |-> None,
                         prompt |-> None, fix_prompt |-> None]

\* C2 witness: set_crop applied to an image that had all four stages set.
C2_Witness ==
    /\ last.op = "set_crop"
    /\ \A k \in Stages : Staged(last.pre, k) /\ Payload(last.pre, k) # None

SetterStage(op) ==
    CASE op = "set_crop" -> 1 [] op = "set_resize" -> 2
      [] op = "set_infer" -> 3 [] op = "set_fix" -> 4 [] OTHER -> 0

\* C3: a stage setter sets its own bit, clears the bit and the payload of
\* every later stage, and leaves the bit and the payload of every earlier
\* stage as they were before the call.
C3_SetterCascade ==
    SetterStage(last.op) # 0 =>
        LET k == SetterStage(last.op)
            m == mgr[last.img]
        IN /\ Staged(m, k)
           /\ Payload(m, k) = last.arg
           /\ \A j \in (k + 1)..Len(STATE_ORDER) :
                 ~Staged(m, j) /\ Payload(m, j) = None
           /\ \A j \in 1..(k - 1) :
                 /\ Staged(m, j) = Staged(last.pre, j)
                 /\ Payload(m, j) = Payload(last.pre, j)

\* C3 witness: set_resize applied to an image that had all four stages set,
\* so that there is an earlier stage to keep and later stages to clear.
C3_Witness ==
    /\ last.op = "set_resize"
    /\ \A k \in Stages : Staged(last.pre, k) /\ Payload(last.pre, k) # None

\* C4: in every reachable state, the roi of an image is not None exactly
\* when the CROP bit of its state is set.
C4_RoiIffCrop ==
    \A i \in Images : (mgr[i].roi # None) <=> Staged(mgr[i], 1)

\* C4 witness: a right click has just cleared the roi of an image whose
\* later stages are set.
C4_Witness ==
    /\ last.op = "mouse_press" /\ last.arg = <<"RightButton">>
    /\ last.img # NoImage
    /\ last.pre.roi # None /\ Staged(last.pre, 2)
    /\ mgr[last.img].roi = None

\* The crop of the bound image has just been cleared: by a right click with
\* an aspect ratio set, or by set_aspect_ratio with an empty or blank string.
CropCleared ==
    /\ last.img # NoImage
    /\ \/ last.op = "mouse_press" /\ last.arg = <<"RightButton">> /\ aspect_ratio # None
       \/ last.op = "set_aspect_ratio" /\ parse_ratio(last.arg) = <<"empty">>

\* C6: clearing the crop leaves the image with roi None, state 0 and
\* resize, prompt and fix_prompt None, whatever stages were applied before.
C6_ClearLeavesNothing == CropCleared => mgr[last.img] = reset

\* The number a string of binary digits denotes.
RECURSIVE BinValue(_)
BinValue(str) ==
    IF str = <<>> THEN 0
    ELSE 2 * BinValue(SubSeq(str, 1, Len(str) - 1))
         + (IF str[Len(str)] = "1" THEN 1 ELSE 0)

\* C20: whatever operations have run, every image's state lies in
\* 0..0b11110 with bit 0 clear, and get_state reports it as exactly five
\* binary digits.
C20_StateFiveBits ==
    \A i \in Images :
        /\ mgr[i].state \in 0..30
        /\ Bit(mgr[i].state, 1) = 0
        /\ Len(get_state(mgr[i])) = 5
        /\ \A k \in 1..5 : get_state(mgr[i])[k] \in {"0", "1"}
        /\ BinValue(get_state(mgr[i])) = mgr[i].state

\* All four stages done on A, the last by set_fix.
C20_Witness ==
    /\ last.op = "set_fix" /\ last.img = "A"
    /\ last.pre.state = STATE_CROP + STATE_RESIZE + STATE_INFER
    /\ mgr["A"].state = 30
    /\ get_state(mgr["A"]) = <<"1", "1", "1", "1", "0">>

-----------------------------------------------------------------------------
(* Properties of the selector's memory and of its handlers where they      *)
(* must do nothing, checked under SpecSwitch and SpecRatio.                *)

\* This step is a confirm on image i: a click ends the selecting phase.
ConfirmStep(i) ==
    /\ image_manager = i /\ is_selecting /\ ~is_selecting'
    /\ last'.op \in {"mouse_press", "mouse_release"}

\* C11: a confirm on image i remembers the rectangle and rect_size it
\* confirmed; while another image is bound nothing changes what is
\* remembered for i; and set_image(i) with a ratio set puts back exactly the
\* remembered rectangle and rect_size and leaves the phase confirmed.
C11_MemoryRestore ==
    [][\A i \in Images :
         /\ ConfirmStep(i) =>
               /\ last_rect_pos'[i] = rectangle /\ rectangle' = rectangle
               /\ last_rect_size'[i] = <<rect_size>> /\ rect_size' = rect_size
         /\ (image_manager # i /\ image_manager # NoImage) =>
               /\ last_rect_pos'[i] = last_rect_pos[i]
               /\ last_rect_size'[i] = last_rect_size[i]
         /\ (/\ last'.op = "set_image" /\ last'.img = i
             /\ last_rect_size[i] # None /\ aspect_ratio # None) =>
               /\ rectangle' = last_rect_pos[i]
               /\ rect_size' = last_rect_size[i][1]
               /\ ~is_selecting'
               /\ aspect_ratio' = aspect_ratio]_vars

\* C11 witness: set_image has just put back for image A a rectangle and a
\* rect_size that differ from the ones remembered for B, which was confirmed
\* after wheel steps.
C11_Witness ==
    /\ last.op = "set_image" /\ last.img = "A" /\ ~is_selecting
    /\ last_rect_size["A"] # None /\ last_rect_size["B"] # None
    /\ rectangle = last_rect_pos["A"] /\ rect_size = last_rect_size["A"][1]
    /\ rect_size # last_rect_size["B"][1]
    /\ rectangle # last_rect_pos["B"]
    /\ mgr["A"].roi # None /\ mgr["B"].roi # None

\* The string is not blank and has a part that is no integer, or has not
\* exactly two parts.
Malformed(str) ==
    /\ strip(str) # <<>>
    /\ \/ Len(split(str, ":")) # 2
       \/ \E k \in 1..Len(split(str, ":")) : int(split(str, ":")[k]) = None

\* C12: set_aspect_ratio with a string that has a non-integer part or the
\* wrong number of parts leaves aspect_ratio, the rectangle, rect_size, the
\* phase, the memory and every image's roi and state unchanged.
C12_MalformedRatioIgnored ==
    [][(last'.op = "set_aspect_ratio" /\ Malformed(last'.arg)) =>
          /\ UNCHANGED <<selVars, trackerVars, viewVars>>
          /\ last'.exc = ""]_vars

\* C12 witness: with ratio 4:3 active and a rectangle confirmed,
\* set_aspect_ratio("1:2:3") has just been called.
C12_Witness ==
    /\ last.op = "set_aspect_ratio" /\ last.arg = <<"1", ":", "2", ":", "3">>
    /\ aspect_ratio = <<4, 3>> /\ ~is_selecting
    /\ image_manager = "A" /\ mgr["A"].roi # None /\ last_rect_pos["A"] # None
    /\ ~isNull(rectangle)

\* C13: set_aspect_ratio raises nothing to its caller, whatever the string.
C13_SetAspectRatioNeverRaises ==
    last.op = "set_aspect_ratio" => last.exc = ""

PointerOps == {"mouse_move", "wheel", "mouse_press", "mouse_release"}

\* C14: while no aspect ratio is set, no pointer event (move, wheel, press,
\* release) changes any image's roi, payloads or state, the phase or the
\* memory.
C14_NoRatioNoEffect ==
    [][(aspect_ratio = None /\ last'.op \in PointerOps) =>
          UNCHANGED <<mgr, is_selecting, last_rect_size, last_rect_pos>>]_vars

\* C15: while no image is bound, pointer moves, wheel steps and clicks raise
\* nothing and leave the phase, the rectangle, rect_size, aspect_ratio and
\* the memory unchanged.
C15_NoImageNoEffect ==
    [][(image_manager = NoImage /\ last'.op \in PointerOps) =>
          /\ UNCHANGED selVars
          /\ last'.exc = ""]_vars

-----------------------------------------------------------------------------
(* Properties of the display router, of removal and of import (SpecApp,    *)
(* SpecDisplay).                                                           *)

\* Image i's record is referenced by the router or by a display component.
Holders(i) ==
    \/ display_image = i
    \/ image_manager = i
    \/ \E c \in PlainComponents : components[c] = i

DeleteOps == {"delete_image", "delete_workspace"}

\* C16: after delete_image or delete_workspace has removed records from the
\* working set, neither the display router nor any display component
\* still references a removed record (and so its pixel data).
C16_NoResidualReference ==
    last.op \in DeleteOps => \A i \in last.arg : ~Holders(i)

\* The calls ModeDisplayManager.set_mode makes for a switch from P to N
\* with the image im current, in the order the contract asks for.
SwitchCalls(P, N, im) ==
    (IF P # NoMode THEN <<<<"hide", P>>, <<"on_exit_mode", P>>>> ELSE <<>>)
    \o (IF im # NoImage THEN <<<<"set_image", N>>>> ELSE <<>>)
    \o <<<<"show", N>>, <<"on_enter_mode", N>>>>

\* C17: once a mode is set exactly the current display component is shown;
\* a switch from P to N hides P and calls its exit hook, then binds N to
\* the current image, shows it and calls its enter hook; set_mode with a
\* name that is no component changes nothing.
C17_OneShownSwitchInOrder ==
    [][/\ display_mode' # NoMode =>
             \A c \in Components : shown'[c] <=> (c = display_mode')
       /\ last'.op = "display_set_mode" =>
             IF last'.arg[1] \notin Components
             THEN /\ UNCHANGED <<trackerVars, viewVars, selVars, routerVars>>
                  /\ last'.out = <<>>
             ELSE /\ last'.out = SwitchCalls(display_mode, last'.arg[1], display_image)
                  /\ display_mode' = last'.arg[1]
                  /\ display_image' = display_image
                  /\ (IF last'.arg[1] = "crop" THEN image_manager'
                      ELSE components'[last'.arg[1]]) = display_image]_vars

C17_Witness ==
    /\ last.op = "display_set_mode"
    /\ last.arg = <<"resize">>
    /\ last.out = SwitchCalls("crop", "resize", "A")
    /\ components["resize"] = "A"
    /\ shown["resize"] /\ ~shown["crop"]
    /\ mgr["A"].roi # None

\* C18: a mode switch, a removal with its reset to the no-mode state, an
\* import and a selection in the table leave the selector's memory and
\* its ratio as they are, a confirming click stores the rectangle and
\* rect_size it confirms, and entering crop mode with image i current, i
\* remembered and a ratio set leaves the selector Confirmed on i with the
\* remembered rectangle and rect_size.
C18_MemorySurvivesModeSwitches ==
    [][/\ last'.op \notin {"mouse_press", "mouse_release"} =>
             UNCHANGED <<last_rect_size, last_rect_pos>>
       /\ (last'.op # "ratio_changed" /\ aspect_ratio # None) =>
             aspect_ratio' = aspect_ratio
       /\ \A i \in Images :
            /\ (last'.op \in {"mouse_press", "mouse_release"} /\ image_manager = i
                  /\ is_selecting /\ ~is_selecting') =>
                   /\ last_rect_pos'[i] = rectangle
                   /\ last_rect_size'[i] = <<rect_size>>
            /\ (last'.op = "set_mode" /\ last'.arg = <<"crop">>
                  /\ display_image = i /\ last_rect_size[i] # None
                  /\ aspect_ratio # None) =>
                   /\ shown'["crop"] /\ image_manager' = i
                   /\ ~is_selecting'
                   /\ rectangle' = last_rect_pos[i]
                   /\ rect_size' = last_rect_size[i][1]]_vars

\* Crop mode entered from the resize mode on image A, whose record was
\* removed and imported again after the confirmation: the selection is back.
C18_Witness ==
    /\ last.op = "set_mode" /\ last.arg = <<"crop">>
    /\ last.out[1] = <<"hide", "resize">>
    /\ image_manager = "A" /\ InList("A")
    /\ mgr["A"].roi = None
    /\ aspect_ratio = <<4, 3>>
    /\ ~is_selecting
    /\ ~isNull(rectangle)
    /\ rectangle = last_rect_pos["A"]
    /\ <<rect_size>> = last_rect_size["A"]

\* The files of a batch that load and are not in the working set `list`.
LoadableNew(list, file_names) ==
    SelectSeq(file_names,
              LAMBDA f : f \in Images /\ f \notin {list[k] : k \in 1..Len(list)})

\* C19: an import raises nothing, appends to the working set exactly the
\* batch's loadable files that are not in it, in batch order, and leaves
\* the records loaded before at their positions with their roi, payloads
\* and state.
C19_ImportPartialFailure ==
    [][last'.op = "import_image" =>
         /\ last'.exc = ""
         /\ image_list' = image_list \o LoadableNew(image_list, last'.arg)
         /\ \A k \in 1..Len(image_list) :
              /\ image_list'[k] = image_list[k]
              /\ mgr'[image_list[k]] = mgr[image_list[k]]]_vars

\* The batch B, X, A imported over a working set that holds A with a
\* confirmed roi: X fails, A is a duplicate, B is appended.
C19_Witness ==
    /\ last.op = "import_image"
    /\ last.arg = <<"B", "X", "A">>
    /\ last.out = <<"A">>
    /\ image_list = <<"A", "B">>
    /\ mgr["A"].roi # None
    /\ mgr["A"].state = STATE_CROP
    /\ mgr["B"] = reset

-----------------------------------------------------------------------------
(* Properties of the selector's geometry, checked under SpecGeom,          *)
(* SpecScroll and SpecMap.                                                 *)

\* C5: every roi stored on an image lies inside the original image:
\* 0 <= x, 0 <= y, x + w <= width and y + h <= height.
C5_RoiInsideImage ==
    \A i \in Images :
        mgr[i].roi # None =>
            /\ 0 <= mgr[i].roi[1] /\ 0 <= mgr[i].roi[2]
            /\ mgr[i].roi[1] + mgr[i].roi[3] <= org_width(i)
            /\ mgr[i].roi[2] + mgr[i].roi[4] <= org_height(i)

\* The rectangle rect lies inside the displayed image.
Inside(rect, sp, sz) ==
    /\ x_offset(sp, sz) <= rect[1] /\ rect[1] + rect[3] <= x_offset(sp, sz) + sp[1]
    /\ y_offset(sp, sz) <= rect[2] /\ rect[2] + rect[4] <= y_offset(sp, sz) + sp[2]

\* The selector is bound, has a ratio and is selecting: moves and wheel steps act.
Selecting == image_manager # NoImage /\ aspect_ratio # None /\ is_selecting

\* C7: with an image bound and an aspect ratio set, after a pointer move or
\* a wheel step the candidate rectangle lies inside the displayed image.
C7_RectangleInsideImage ==
    (Selecting /\ last.op \in {"mouse_move", "wheel"}) =>
        Inside(rectangle, scaled_pixmap, size)

\* |w / h - W / H| < 1 / 1000, for h > 0 and H > 0.
RatioWithinThousandth(w, h, ar) ==
    1000 * Abs(w * ar[2] - h * ar[1]) < h * ar[2]

\* C8 as stated: after a wheel step in the selecting phase, the width and
\* height of the rectangle satisfy |width / height - aspect_ratio| < 1e-3.
C8_ScrollKeepsRatio ==
    (Selecting /\ last.op = "wheel") =>
        RatioWithinThousandth(rectangle[3], rectangle[4], aspect_ratio)

\* C8 amended: after a wheel step in the selecting phase the height is the
\* width divided by the ratio, truncated: 0 <= width * H - height * W < W,
\* that is 0 <= width / height - W / H < (W / H) / height.
C8_ScrollTruncatesHeight ==
    (Selecting /\ last.op = "wheel") =>
        /\ 0 <= rectangle[3] * aspect_ratio[2] - rectangle[4] * aspect_ratio[1]
        /\ rectangle[3] * aspect_ratio[2] - rectangle[4] * aspect_ratio[1]
             < aspect_ratio[1]

\* C8 witness: a wheel step under 16:9 has left a width of at least 100
\* that 16 does not divide, so that the height was truncated.
C8_Witness ==
    /\ Selecting /\ last.op = "wheel" /\ aspect_ratio = <<16, 9>>
    /\ rectangle[3] >= min_width
    /\ rectangle[3] * 9 # rectangle[4] * 16

\* The display scale of the bound image is in (0, 2] on both axes.
ScaleUpToTwo ==
    /\ scaled_pixmap[1] <= 2 * org_width(image_manager)
    /\ scaled_pixmap[2] <= 2 * org_height(image_manager)

ShortByLessThan(c, c2, num, den) == c2 <= c /\ (c - c2) * num < num + den

C10_Start ==
    /\ image_manager = "A" /\ aspect_ratio = <<1, 1>> /\ is_selecting
    /\ mgr["A"] = reset /\ rect_size = default_rect_size
    /\ rectangle = _set_default_rectangle(scaled_pixmap, size, aspect_ratio,
                                          rect_size, rectangle)

\* The rectangle is square, centred on the displayed image to the pixel,
\* and its long edge is at most min(800, 600).
C10_CentredSquare ==
    /\ rectangle[3] = rectangle[4]
    /\ Max(rectangle[3], rectangle[4]) <= Min(org_width("A"), org_height("A"))
    /\ Abs((rectangle[1] - x_offset(scaled_pixmap, size))
           - (x_offset(scaled_pixmap, size) + scaled_pixmap[1]
              - rectangle[1] - rectangle[3])) <= 1
    /\ Abs((rectangle[2] - y_offset(scaled_pixmap, size))
           - (y_offset(scaled_pixmap, size) + scaled_pixmap[2]
              - rectangle[2] - rectangle[4])) <= 1

\* The scenario after its confirm: the crop of image A stored by a left click.
C10_Confirmed ==
    /\ image_manager = "A" /\ aspect_ratio = <<1, 1>> /\ ~is_selecting
    /\ last.op = "mouse_press" /\ last.arg = <<"LeftButton">>
    /\ mgr["A"].state = STATE_CROP

\* C10: for the 800 x 600 image with ratio 1:1 the default rectangle is
\* centred and square with long edge <= min(800, 600); a confirm there
\* stores a roi with w = h; a cancel after it leaves roi None and state 0.
C10_ConfirmCancelScenario ==
    [][/\ C10_Start =>
            /\ C10_CentredSquare
            /\ (last'.op = "mouse_press" /\ last'.arg = <<"LeftButton">>) =>
                   mgr'["A"].roi[3] = mgr'["A"].roi[4]
       /\ (C10_Confirmed /\ last'.op = "mouse_press"
              /\ last'.arg = <<"RightButton">>) =>
            mgr'["A"].roi = None /\ mgr'["A"].state = STATE_NONE]_vars

-----------------------------------------------------------------------------
(* Properties of the selector's operations one by one, checked under       *)
(* SpecSwitch, SpecGeom, SpecScroll and SpecRatio.                         *)

\* The step is the handling of a right press with an image bound and a
\* ratio set: a cancel().
CancelStep ==
    /\ last'.op = "mouse_press" /\ last'.arg = <<"RightButton">>
    /\ image_manager # NoImage /\ aspect_ratio # None

\* The state is the one a cancel() has just left.
Cancelled ==
    /\ last.op = "mouse_press" /\ last.arg = <<"RightButton">>
    /\ image_manager # NoImage /\ aspect_ratio # None

\* C21: a cancel() leaves the phase Selecting and removes the memory entry
\* of the bound image and of no other image; a second cancel() right after
\* a first changes nothing in the selector nor in any image's record.
C21_CancelIdempotent ==
    [][CancelStep =>
         /\ is_selecting'
         /\ last_rect_size'[image_manager] = None
         /\ last_rect_pos'[image_manager] = None
         /\ \A j \in Images \ {image_manager} :
              /\ last_rect_size'[j] = last_rect_size[j]
              /\ last_rect_pos'[j] = last_rect_pos[j]
         /\ Cancelled => UNCHANGED <<selVars, viewVars, trackerVars>>]_vars

\* A cancel() on A, confirmed before, with B's confirmation remembered.
C21_Witness ==
    /\ Cancelled
    /\ image_manager = "A"
    /\ last.pre.roi # None
    /\ mgr["A"].roi = None
    /\ is_selecting
    /\ last_rect_size["A"] = None
    /\ last_rect_size["B"] # None /\ last_rect_pos["B"] # None

\* The default rectangle for ratio ar in the current view: as large as
\* rect_size and the displayed image allow, centred on the displayed image.
DefaultRectangle(ar) ==
    _set_default_rectangle(scaled_pixmap, size, ar, rect_size, rectangle)

\* C22: set_aspect_ratio with a valid "W:H" on a bound image that has no
\* memory entry sets the ratio W/H, makes the rectangle the default one for
\* it and leaves the phase Selecting.
C22_ValidRatioGivesDefaultRectangle ==
    [][(/\ last'.op = "set_aspect_ratio"
        /\ parse_ratio(last'.arg)[1] = "ok"
        /\ image_manager # NoImage
        /\ last_rect_size[image_manager] = None) =>
         /\ aspect_ratio' = <<parse_ratio(last'.arg)[2], parse_ratio(last'.arg)[3]>>
         /\ rectangle' = DefaultRectangle(aspect_ratio')
         /\ is_selecting'
         /\ UNCHANGED <<rect_size, last_rect_size, last_rect_pos, viewVars, trackerVars>>]_vars

\* "16:9" set on A after wheel steps under another ratio.
C22_Witness ==
    /\ last.op = "set_aspect_ratio"
    /\ last.arg = <<"1", "6", ":", "9">>
    /\ image_manager = "A" /\ last_rect_size["A"] = None
    /\ aspect_ratio = <<16, 9>>
    /\ rect_size < 300
    /\ rectangle = DefaultRectangle(<<16, 9>>)
    /\ rectangle[3] = rect_size
    /\ is_selecting

\* C23: set_rect_size(size) raises nothing in any selector state, sets
\* rect_size to size, and leaves the phase, the ratio, the memory and every
\* image's record unchanged.
C23_SetRectSizeFrame ==
    [][last'.op = "set_rect_size" =>
         /\ last'.exc = ""
         /\ rect_size' = last'.arg[1]
         /\ UNCHANGED <<is_selecting, aspect_ratio, last_rect_size, last_rect_pos, mgr>>]_vars

\* C24: whatever strings set_aspect_ratio has been called with, the ratio
\* is unset or a strictly positive W/H.
C24_RatioUnsetOrPositive ==
    aspect_ratio = None \/ (aspect_ratio[1] > 0 /\ aspect_ratio[2] > 0)

InSetImage == {"set_image_bound", "set_image_scaled"}

\* C25: a change of the bound image runs to completion before the next
\* pointer event is handled: no pointer event is handled while a handler in
\* progress is inside set_image, whatever the status updates let through.
C25_SetImageRunsToCompletion ==
    [][last'.op \in PointerOps =>
          \A i \in 1..Len(call_stack) : call_stack[i].pc \notin InSetImage]_vars

\* A pointer event handled by the status update that follows set_image,
\* the handler of the click still in progress and the image it bound shown.
C25_Witness ==
    /\ last.op = "mouse_press" /\ last.arg = <<"LeftButton">>
    /\ call_stack # <<>> /\ Top.pc = "displayed_info"
    /\ image_manager = Top.img
    /\ scaled_pixmap # None
    /\ mgr[image_manager].roi # None

LeftClickConfirms ==
    /\ last'.op = "mouse_press" /\ last'.arg = <<"LeftButton">>
    /\ is_selecting /\ aspect_ratio # None /\ image_manager # NoImage

\* The release of the button whose press has just confirmed the selection.
ReleaseAfterConfirm ==
    /\ last.op = "mouse_press" /\ last.arg = <<"LeftButton">> /\ last.out # <<>>
    /\ last'.op = "mouse_release" /\ last'.arg = <<"LeftButton">>

SourceRect == _get_source_rect(image_manager, scaled_pixmap, size, rectangle)

\* C26: a left click in Selecting with a ratio set and an image bound moves
\* the phase to Confirmed, calls set_crop once (on the press, not again on
\* the release) with the rectangle converted to image space, records
\* (rect_size, rectangle) in the memory of the bound image only, and leaves
\* rectangle, rect_size and aspect_ratio unchanged.
C26_ConfirmOncePerClick ==
    [][/\ LeftClickConfirms =>
             /\ ~is_selecting'
             /\ last'.out = <<<<"set_crop", SourceRect>>>>
             /\ mgr' = [mgr EXCEPT ![image_manager] = set_crop(@, SourceRect)]
             /\ last_rect_size' = [last_rect_size EXCEPT ![image_manager] = <<rect_size>>]
             /\ last_rect_pos' = [last_rect_pos EXCEPT ![image_manager] = rectangle]
             /\ UNCHANGED <<rectangle, rect_size, aspect_ratio>>
       /\ ReleaseAfterConfirm =>
             /\ last'.out = <<>>
             /\ UNCHANGED <<trackerVars, viewVars, selVars>>]_vars

\* The press of a left click has confirmed a moved selection on B while A's
\* memory holds another one.
C26_Witness ==
    /\ last.op = "mouse_press" /\ last.arg = <<"LeftButton">>
    /\ image_manager = "B" /\ aspect_ratio # None /\ ~is_selecting
    /\ last.pre.roi = None
    /\ last.out = <<<<"set_crop", mgr["B"].roi>>>>
    /\ last_rect_size["B"] = <<rect_size>>
    /\ last_rect_pos["B"] = rectangle
    /\ last_rect_pos["A"] # None /\ last_rect_pos["A"] # rectangle

\* C27: set_image of an image changes no record, no memory entry and not
\* the ratio; when nothing is remembered for the image, or no ratio is set,
\* it ends in Selecting, with the default rectangle if a ratio is set and
\* with the empty rectangle if none is.
C27_SetImageFrameAndDefault ==
    [][(last'.op = "set_image" /\ image_manager' # NoImage) =>
          /\ UNCHANGED <<trackerVars, last_rect_size, last_rect_pos, aspect_ratio>>
          /\ (last_rect_size[image_manager'] = None \/ aspect_ratio = None) =>
                /\ is_selecting'
                /\ rectangle' =
                     IF aspect_ratio # None
                     THEN _set_default_rectangle(scaled_pixmap', size, aspect_ratio,
                                                 rect_size, rectangle)
                     ELSE NullRect]_vars

\* B bound with nothing remembered for it, after a selection was confirmed
\* on A: the selector is back in Selecting with B's default rectangle.
C27_Witness ==
    /\ last.op = "set_image" /\ image_manager = "B"
    /\ aspect_ratio # None
    /\ last_rect_size["B"] = None /\ last_rect_size["A"] # None
    /\ mgr["A"].roi # None /\ mgr["B"].roi = None
    /\ is_selecting
    /\ ~isNull(rectangle) /\ rectangle # last_rect_pos["A"]
    /\ rectangle = DefaultRectangle(aspect_ratio)

WheelStep ==
    /\ last'.op = "wheel"
    /\ is_selecting /\ aspect_ratio # None /\ image_manager # NoImage

\* v clamped to the interval [lo, hi].
ClampedTo(v, x, lo, hi) ==
    /\ lo <= v /\ v <= hi
    /\ (lo <= x /\ x <= hi) => v = x
    /\ x < lo => v = lo
    /\ x > hi => v = hi

\* The rectangle r fits inside the displayed image.
FitsInside(r) ==
    /\ r[1] >= x_offset(scaled_pixmap, size)
    /\ r[2] >= y_offset(scaled_pixmap, size)
    /\ r[1] + r[3] <= x_offset(scaled_pixmap, size) + scaled_pixmap[1]
    /\ r[2] + r[4] <= y_offset(scaled_pixmap, size) + scaled_pixmap[2]

\* C28: a wheel step in Selecting with a ratio W:H replaces the width by
\* floor(width*1.1) for a positive delta and floor(width*0.9) otherwise,
\* clamped to [100, min(iw, floor(ih*W/H))]; the height becomes
\* floor(width*H/W) and rect_size max(width, height); the centre
\* (x + w div 2, y + h div 2) is kept whenever the resized rectangle around
\* it fits inside the displayed image.
C28_ScrollFormula ==
    [][WheelStep =>
          LET W == aspect_ratio[1]
              H == aspect_ratio[2]
              x == IF last'.arg[1] > 0 THEN (rectangle[3] * 11) \div 10
                   ELSE (rectangle[3] * 9) \div 10
              hi == Min(scaled_pixmap[1], (scaled_pixmap[2] * W) \div H)
              w == rectangle'[3]
              h == rectangle'[4]
              cx == rectangle[1] + rectangle[3] \div 2
              cy == rectangle[2] + rectangle[4] \div 2
          IN /\ ClampedTo(w, x, min_width, hi)
             /\ h = (w * H) \div W
             /\ rect_size' = Max(w, h)
             /\ FitsInside(QRect(cx - w \div 2, cy - h \div 2, w, h)) =>
                   /\ rectangle'[1] + w \div 2 = cx
                   /\ rectangle'[2] + h \div 2 = cy]_vars

MoveStep ==
    /\ last'.op = "mouse_move"
    /\ is_selecting /\ aspect_ratio # None /\ image_manager # NoImage

\* pos lies at least w/2 and h/2 inside the edges of the displayed image.
WellInside(pos, w, h) ==
    /\ 2 * pos[1] >= 2 * x_offset(scaled_pixmap, size) + w
    /\ 2 * pos[1] <= 2 * (x_offset(scaled_pixmap, size) + scaled_pixmap[1]) - w
    /\ 2 * pos[2] >= 2 * y_offset(scaled_pixmap, size) + h
    /\ 2 * pos[2] <= 2 * (y_offset(scaled_pixmap, size) + scaled_pixmap[2]) - h

\* C29: a pointer move in Selecting with a ratio set and an image bound
\* changes only the position of the rectangle: its width and height,
\* rect_size, the phase, the ratio, the memory and the records are
\* unchanged; when the pointer lies at least w/2 and h/2 inside the edges of
\* the displayed image the centre of the rectangle is the pointer, within a
\* pixel.
C29_MoveChangesOnlyPosition ==
    [][MoveStep =>
          /\ rectangle'[3] = rectangle[3] /\ rectangle'[4] = rectangle[4]
          /\ UNCHANGED <<rect_size, is_selecting, aspect_ratio, last_rect_size,
                         last_rect_pos, trackerVars>>
          /\ WellInside(last'.arg, rectangle[3], rectangle[4]) =>
                /\ Abs(rectangle'[1] + rectangle'[3] \div 2 - last'.arg[1]) <= 1
                /\ Abs(rectangle'[2] + rectangle'[4] \div 2 - last'.arg[2]) <= 1]_vars

\* The rectangle of A has followed the pointer to a point off the centre of
\* the image and well inside it.
C29_Witness ==
    /\ last.op = "mouse_move" /\ last.arg = <<90, 60>>
    /\ image_manager = "A" /\ aspect_ratio # None /\ is_selecting
    /\ WellInside(last.arg, rectangle[3], rectangle[4])
    /\ rectangle[1] + rectangle[3] \div 2 = 90
    /\ rectangle[2] + rectangle[4] \div 2 = 60
    /\ rectangle[3] > 0

\* C30: in Confirmed phase a pointer move and a wheel step change nothing:
\* rectangle, rect_size, the phase, the memory and the records are
\* unchanged, for every pointer position and wheel delta.
C30_ConfirmedIgnoresMoveAndScroll ==
    [][(last'.op \in {"mouse_move", "wheel"} /\ ~is_selecting) =>
          UNCHANGED <<rectangle, rect_size, is_selecting, last_rect_size,
                      last_rect_pos, trackerVars>>]_vars

\* The pointer moved to the corner of the viewport after a selection on A
\* was confirmed away from it: the rectangle is still the confirmed one.
C30_Witness ==
    /\ last.op = "mouse_move" /\ last.arg = <<0, 0>>
    /\ image_manager = "A" /\ aspect_ratio # None /\ ~is_selecting
    /\ mgr["A"].roi # None
    /\ rectangle = last_rect_pos["A"]
    /\ rectangle[1] > x_offset(scaled_pixmap, size)

-----------------------------------------------------------------------------
(* Properties of the default rectangle, checked under SpecDefault.         *)

\* The last operation has set the default rectangle on the bound image.
JustDefaulted ==
    /\ last.op \in {"set_image", "set_aspect_ratio", "set_rect_size"}
    /\ last.exc = ""
    /\ image_manager # NoImage /\ scaled_pixmap # None
    /\ aspect_ratio # None /\ aspect_ratio[1] > 0 /\ aspect_ratio[2] > 0
    /\ last_rect_size[image_manager] = None

\* C31: the default rectangle has w <= iw and h <= ih, lies inside the
\* displayed image and is centred in it (opposite margins differ by at most
\* a pixel); for a ratio above 1 its width is min(rect_size, iw), otherwise
\* its height is min(rect_size, ih).
C31_DefaultRectangleInsideCentred ==
    JustDefaulted =>
        LET iw == scaled_pixmap[1]
            ih == scaled_pixmap[2]
            xo == x_offset(scaled_pixmap, size)
            yo == y_offset(scaled_pixmap, size)
            r == rectangle
        IN /\ r[3] <= iw /\ r[4] <= ih
           /\ FitsInside(r)
           /\ Abs((r[1] - xo) - (xo + iw - (r[1] + r[3]))) <= 1
           /\ Abs((r[2] - yo) - (yo + ih - (r[2] + r[4]))) <= 1
           /\ IF aspect_ratio[1] > aspect_ratio[2]
              THEN r[3] = Min(rect_size, iw)
              ELSE r[4] = Min(rect_size, ih)

\* The default rectangle of the 100x600 image displayed at 20x120 under
\* 1:1: its first-computed width 120 clamped to the 20 pixels displayed.
C31_Witness ==
    /\ JustDefaulted
    /\ last.op = "set_aspect_ratio"
    /\ image_manager = "B" /\ scaled_pixmap = <<20, 120>>
    /\ aspect_ratio = <<1, 1>> /\ rect_size > 120
    /\ rectangle = <<70, 0, 20, 120>>

\* C38: the default rectangle keeps the ratio W:H up to integer rounding,
\* |w*H - h*W| < max(W, H), also when its first-computed width or height
\* is clamped to the displayed image; under 1:1 it is square.
C38_DefaultKeepsRatio ==
    JustDefaulted =>
        LET W == aspect_ratio[1]
            H == aspect_ratio[2]
        IN Abs(rectangle[3] * H - rectangle[4] * W) < Max(W, H)

-----------------------------------------------------------------------------
(* Properties of the phase and of the stored selection, checked under      *)
(* SpecGeom, SpecSwitch and SpecApp.                                        *)

\* C32: whenever the selector is in Confirmed phase with an image bound,
\* that image has the CROP bit set and its roi is the conversion to image
\* space of the current rectangle under the current viewport.
C32_ConfirmedMatchesRoi ==
    (~is_selecting /\ image_manager # NoImage) =>
        /\ BitAnd(mgr[image_manager].state, STATE_CROP) # 0
        /\ mgr[image_manager].roi =
             _get_source_rect(image_manager, scaled_pixmap, size, rectangle)

\* C33: the selector's memory holds an entry for an image if and only if
\* that image is cropped (CROP bit set and roi not None).
C33_MemoryIffCropped ==
    \A i \in Images :
        (last_rect_size[i] # None \/ last_rect_pos[i] # None)
            <=> (BitAnd(mgr[i].state, STATE_CROP) # 0 /\ mgr[i].roi # None)

-----------------------------------------------------------------------------
(* The stage bits against the stage payloads, checked under Spec.          *)

\* C34: for every record and every stage after CROP, the stage's bit is set
\* if and only if its payload is not None (RESIZE with resize, INFER with
\* prompt, FIX with fix_prompt).
C34_BitIffPayload ==
    \A i \in Images :
        /\ (BitAnd(mgr[i].state, STATE_RESIZE) # 0) <=> (mgr[i].resize # None)
        /\ (BitAnd(mgr[i].state, STATE_INFER) # 0) <=> (mgr[i].prompt # None)
        /\ (BitAnd(mgr[i].state, STATE_FIX) # 0) <=> (mgr[i].fix_prompt # None)

-----------------------------------------------------------------------------
(* Properties of the mode managers, checked under SpecApp.                 *)

\* C35: for each mode the window requests, ModeManager.set_mode(m) succeeds
\* and leaves the operation area in mode m and the display mapped to m
\* current.
C35_SetModeSucceeds ==
    [][last'.op = "set_mode" =>
          /\ opt_mode' = last'.arg[1]
          /\ display_mode' = mode_display_map(last'.arg[1])]_vars

\* C36: whenever crop mode has just been entered, the first time included,
\* the selector's aspect_ratio is the ratio selected in the crop panel's
\* combo box.
C36_CropEntrySetsRatio ==
    [][(last'.op = "set_mode" /\ last'.arg = <<"crop">>) =>
          /\ opt_mode' = "crop" /\ display_mode' = "crop"
          /\ aspect_ratio' # None
          /\ aspect_ratio' = <<parse_ratio(ratio_combo')[2], parse_ratio(ratio_combo')[3]>>]_vars

-----------------------------------------------------------------------------
(* Properties of the stored roi, checked under SpecGeom.                   *)

\* C37: every roi stored on a record is non-degenerate: when it is not
\* None its width and height are positive.
C37_RoiNonDegenerate ==
    \A i \in Images : mgr[i].roi # None => (mgr[i].roi[3] > 0 /\ mgr[i].roi[4] > 0)

-----------------------------------------------------------------------------
(* The changes of phase, checked under SpecPhase.                          *)

\* set_image of an image whose remembered selection it restores.
Restoring ==
    /\ last'.op = "set_image" /\ image_manager' # NoImage
    /\ last_rect_size[image_manager'] # None /\ aspect_ratio # None

\* C39: the phase goes from Selecting to Confirmed only by a left click or
\* by a set_image that restores a remembered selection, and from Confirmed
\* to Selecting only by a right click, by a set_image that restores
\* nothing or by reset; set_aspect_ratio, set_rect_size, pointer moves,
\* wheel steps and resizes of the widget never change it.
C39_PhaseChanges ==
    [][/\ (is_selecting /\ ~is_selecting') =>
             \/ /\ last'.op \in {"mouse_press", "mouse_release"}
                /\ last'.arg = <<"LeftButton">>
             \/ Restoring
       /\ (~is_selecting /\ is_selecting') =>
             \/ last'.op = "mouse_press" /\ last'.arg = <<"RightButton">>
             \/ last'.op = "set_image" /\ ~Restoring
             \/ last'.op = "crop_reset"
       /\ last'.op \in {"set_aspect_ratio", "set_rect_size", "mouse_move",
                        "wheel", "resize"} => UNCHANGED is_selecting]_vars

\* set_rect_size handled in Confirmed phase, a selection of A confirmed: the
\* rectangle is the default one for the new size, the phase is unchanged.
C39_Witness ==
    /\ last.op = "set_rect_size" /\ last.exc = ""
    /\ image_manager = "A" /\ aspect_ratio # None
    /\ ~is_selecting
    /\ mgr["A"].roi # None /\ last_rect_pos["A"] # None
    /\ rectangle # last_rect_pos["A"]

====
